---------------------------- MODULE Spec2Model ----------------------------
(***************************************************************************)
(* A model of the annotation state and geometry engine of the drawing      *)
(* application: useDrawingState (history, selection, rate-based resize),   *)
(* the DrawingApp pointer/keyboard handlers and the geometry helpers.      *)
(*                                                                         *)
(* Numbers.  JavaScript numbers are modelled as exact rationals n/d        *)
(* (d > 0, lowest terms) extended with the IEEE special values NaN,        *)
(* +Infinity and -Infinity and with the two non-numbers that the code can  *)
(* feed into arithmetic: null (what JSON.stringify makes of NaN/Infinity)  *)
(* and undefined (a missing field or array element).  Rounding of doubles  *)
(* and the sign of zero are not modelled.                                  *)
(***************************************************************************)
EXTENDS Integers, Sequences, FiniteSets, TLC

(***************************************************************************)
(*                              NUMBERS                                    *)
(***************************************************************************)
RECURSIVE GCD(_, _)
GCD(a, b) == IF b = 0 THEN a ELSE GCD(b, a % b)

AbsInt(k) == IF k < 0 THEN -k ELSE k

\* the rational n/d, d > 0, in lowest terms
Reduced(n, d, g) == [n |-> n \div g, d |-> d \div g]
Q(n, d) == Reduced(n, d, GCD(AbsInt(n), d))

I(k) == [n |-> k, d |-> 1]

NaN    == [n |-> 0, d |-> 0]
PosInf == [n |-> 1, d |-> 0]
NegInf == [n |-> -1, d |-> 0]
Null   == [n |-> 2, d |-> 0]
Undef  == [n |-> 3, d |-> 0]

\* ToNumber: null coerces to 0, undefined to NaN
ToNumber(a) == IF a = Null THEN I(0) ELSE IF a = Undef THEN NaN ELSE a

IsFinite(a) == a.d > 0
\* the infinity whose sign is the product of the signs of x and y (both non-zero)
InfOfSigns(x, y) == IF (x.n > 0) = (y.n > 0) THEN PosInf ELSE NegInf

NegN(x) == [n |-> -x.n, d |-> x.d]
Neg(a) == NegN(ToNumber(a))

\* over the least common denominator; g is the GCD of the denominators
AddOver(x, y, g) == Q(x.n * (y.d \div g) + y.n * (x.d \div g), (x.d \div g) * y.d)

AddN(x, y) ==
    IF x.d > 0 /\ y.d > 0 THEN AddOver(x, y, GCD(x.d, y.d))
    ELSE IF x = NaN \/ y = NaN \/ (x.d = y.d /\ x # y) THEN NaN
    ELSE IF x.d = 0 THEN x ELSE y
Add(a, b) == AddN(ToNumber(a), ToNumber(b))

Sub(a, b) == Add(a, Neg(b))

MulN(x, y) ==
    IF x.d > 0 /\ y.d > 0 THEN Q(x.n * y.n, x.d * y.d)
    ELSE IF x.n = 0 \/ y.n = 0 THEN NaN
    ELSE InfOfSigns(x, y)
Mul(a, b) == MulN(ToNumber(a), ToNumber(b))

DivN(x, y) ==
    IF y.d = 0 THEN (IF y = NaN \/ x.d = 0 THEN NaN ELSE I(0))
    ELSE IF x.n = 0 THEN (IF x.d > 0 /\ y.n # 0 THEN I(0) ELSE NaN)
    ELSE IF y.n = 0 THEN InfOfSigns(x, PosInf)
    ELSE IF x.d = 0 THEN InfOfSigns(x, y)
    ELSE IF y.n > 0 THEN Q(x.n * y.d, x.d * y.n)
    ELSE Q(-(x.n * y.d), -(x.d * y.n))
Div(a, b) == DivN(ToNumber(a), ToNumber(b))

\* a < b and a <= b as JavaScript evaluates them (false when either is NaN)
LtOver(x, y, g) == x.n * (y.d \div g) < y.n * (x.d \div g)
LeOver(x, y, g) == x.n * (y.d \div g) <= y.n * (x.d \div g)

LtN(x, y) ==
    IF x.d > 0 /\ y.d > 0 THEN LtOver(x, y, GCD(x.d, y.d))
    ELSE x # NaN /\ y # NaN /\ x # y /\ (x = NegInf \/ y = PosInf)
Lt(a, b) == LtN(ToNumber(a), ToNumber(b))

LeN(x, y) ==
    IF x.d > 0 /\ y.d > 0 THEN LeOver(x, y, GCD(x.d, y.d))
    ELSE x # NaN /\ y # NaN /\ (x = y \/ x = NegInf \/ y = PosInf)
Le(a, b) == LeN(ToNumber(a), ToNumber(b))

AbsN(x) == [n |-> AbsInt(x.n), d |-> x.d]
Abs(a) == AbsN(ToNumber(a))

Min2N(x, y) == IF x = NaN \/ y = NaN THEN NaN ELSE IF LtN(y, x) THEN y ELSE x
Min2(a, b) == Min2N(ToNumber(a), ToNumber(b))

Max2N(x, y) == IF x = NaN \/ y = NaN THEN NaN ELSE IF LtN(x, y) THEN y ELSE x
Max2(a, b) == Max2N(ToNumber(a), ToNumber(b))

\* Math.min(...s) and Math.max(...s); of no argument: +Infinity and -Infinity
\* (NaN if an argument converts to NaN, else the least / the greatest argument)
NumbersOf(s) == {ToNumber(s[i]) : i \in 1..Len(s)}
LeastOf(v) == IF NaN \in v THEN NaN ELSE CHOOSE m \in v : \A e \in v : ~LtN(e, m)
GreatestOf(v) == IF NaN \in v THEN NaN ELSE CHOOSE m \in v : \A e \in v : ~LtN(m, e)

MathMin(s) == IF s = <<>> THEN PosInf ELSE LeastOf(NumbersOf(s))

MathMax(s) == IF s = <<>> THEN NegInf ELSE GreatestOf(NumbersOf(s))

\* what JSON.parse(JSON.stringify(v)) makes of a number
JsonNum(a) == IF a = Undef THEN Undef ELSE IF IsFinite(a) THEN a ELSE Null

\* a[i] of a JavaScript array (0-based i): undefined outside the array
At(s, i) == IF i >= 0 /\ i < Len(s) THEN s[i + 1] ELSE Undef

SeqMap(Op(_), s) == [i \in 1..Len(s) |-> Op(s[i])]

(***************************************************************************)
(*                     ANNOTATIONS AND THEIR BOUNDS                        *)
(* An annotation is a record with every field of the four variants; a      *)
(* field the variant does not have holds Undef (numbers), "none" or <<>>.  *)
(* image is "img" for a decoded HTMLImageElement and "{}" for what a JSON  *)
(* round trip leaves of it.                                                *)
(***************************************************************************)
strokeWidth == 3
eraserSize == 40

LineShapeTypes == {"line", "polygon", "polyline", "bezier"}

\* the values at even (x) and odd (y) 0-based positions of a flat point array
XsOf(p) == [i \in 1..((Len(p) + 1) \div 2) |-> p[2 * i - 1]]
YsOf(p) == [i \in 1..(Len(p) \div 2) |-> p[2 * i]]

ZeroBounds == [x |-> I(0), y |-> I(0), width |-> I(0), height |-> I(0)]

BoundsFrom(x, y, maxX, maxY) == [x |-> x, y |-> y, width |-> Sub(maxX, x), height |-> Sub(maxY, y)]

\* bounds spanned by the first and the last point only
PointBounds_ends(points) ==
    IF Len(points) = 0 THEN ZeroBounds
    ELSE BoundsFrom(points[1], points[2], points[Len(points) - 1], points[Len(points)])

PointBounds(points) ==
    IF Len(points) = 0 THEN ZeroBounds
    ELSE BoundsFrom(MathMin(XsOf(points)), MathMin(YsOf(points)),
                    MathMax(XsOf(points)), MathMax(YsOf(points)))

StoredBounds(a) == [x |-> a.x, y |-> a.y, width |-> a.width, height |-> a.height]

calculateBounds(a) ==
    CASE a.type = "stroke" \/ (a.type = "shape" /\ a.shapeType \notin {"rectangle", "ellipse"}) ->
            PointBounds(a.points)
      [] a.type \in {"text", "image", "shape"} -> StoredBounds(a)
      [] OTHER -> ZeroBounds

createAnnotation(a) == [a EXCEPT !.isEditing = FALSE, !.isSelected = FALSE]

(***************************************************************************)
(*                        RATE-BASED RESIZE                                *)
(***************************************************************************)
\* the first switch of resizeAnnotation: the unchanged point and the two rates,
\* given the four quotients its cases choose from
\* rates whose edge anchors scale both axes, as the corner next to them does
RatesOf_edgesAsCorners(anchorIndex, ob, right, bottom, fromRight, fromLeft, fromBottom, fromTop) ==
    CASE anchorIndex = 0 -> [ux |-> right, uy |-> bottom, wr |-> fromRight, hr |-> fromBottom]
      [] anchorIndex = 1 -> [ux |-> ob.x, uy |-> bottom, wr |-> fromLeft, hr |-> fromBottom]
      [] anchorIndex = 2 -> [ux |-> ob.x, uy |-> bottom, wr |-> fromLeft, hr |-> fromBottom]
      [] anchorIndex = 3 -> [ux |-> ob.x, uy |-> ob.y, wr |-> fromLeft, hr |-> fromTop]
      [] anchorIndex = 4 -> [ux |-> ob.x, uy |-> ob.y, wr |-> fromLeft, hr |-> fromTop]
      [] anchorIndex = 5 -> [ux |-> ob.x, uy |-> ob.y, wr |-> fromLeft, hr |-> fromTop]
      [] anchorIndex = 6 -> [ux |-> right, uy |-> ob.y, wr |-> fromRight, hr |-> fromTop]
      [] anchorIndex = 7 -> [ux |-> right, uy |-> ob.y, wr |-> fromRight, hr |-> fromTop]
      [] OTHER -> [ux |-> ob.x, uy |-> ob.y, wr |-> I(1), hr |-> I(1)]

RatesOf(anchorIndex, ob, right, bottom, fromRight, fromLeft, fromBottom, fromTop) ==
    CASE anchorIndex = 0 -> [ux |-> right, uy |-> bottom, wr |-> fromRight, hr |-> fromBottom]
      [] anchorIndex = 1 -> [ux |-> ob.x, uy |-> bottom, wr |-> I(1), hr |-> fromBottom]
      [] anchorIndex = 2 -> [ux |-> ob.x, uy |-> bottom, wr |-> fromLeft, hr |-> fromBottom]
      [] anchorIndex = 3 -> [ux |-> ob.x, uy |-> ob.y, wr |-> fromLeft, hr |-> I(1)]
      [] anchorIndex = 4 -> [ux |-> ob.x, uy |-> ob.y, wr |-> fromLeft, hr |-> fromTop]
      [] anchorIndex = 5 -> [ux |-> ob.x, uy |-> ob.y, wr |-> I(1), hr |-> fromTop]
      [] anchorIndex = 6 -> [ux |-> right, uy |-> ob.y, wr |-> fromRight, hr |-> fromTop]
      [] anchorIndex = 7 -> [ux |-> right, uy |-> ob.y, wr |-> fromRight, hr |-> I(1)]
      [] OTHER -> [ux |-> ob.x, uy |-> ob.y, wr |-> I(1), hr |-> I(1)]

\* (right - newX) / width, (newX - x) / width, (bottom - newY) / height, (newY - y) / height
RatesAt(anchorIndex, ob, right, bottom, newX, newY) ==
    RatesOf(anchorIndex, ob, right, bottom,
            Div(Sub(right, newX), ob.width), Div(Sub(newX, ob.x), ob.width),
            Div(Sub(bottom, newY), ob.height), Div(Sub(newY, ob.y), ob.height))

ResizeRates(anchorIndex, ob, newX, newY) ==
    RatesAt(anchorIndex, ob, Add(ob.x, ob.width), Add(ob.y, ob.height), newX, newY)

\* the new origin of a rectangle, ellipse, text or image (the second switch),
\* given left = unchangedX - newWidth and top = unchangedY - newHeight
OriginOf(anchorIndex, r, left, top) ==
    CASE anchorIndex = 0 -> [x |-> left, y |-> top]
      [] anchorIndex \in {1, 2} -> [x |-> r.ux, y |-> top]
      [] anchorIndex \in {3, 4, 5} -> [x |-> r.ux, y |-> r.uy]
      [] anchorIndex \in {6, 7} -> [x |-> left, y |-> r.uy]
      [] OTHER -> [x |-> r.ux, y |-> r.uy]

ResizeOrigin(anchorIndex, r, newWidth, newHeight) ==
    OriginOf(anchorIndex, r, Sub(r.ux, newWidth), Sub(r.uy, newHeight))

\* the scaled copy of a flat point array, one (x, y) pair per loop iteration
ScalePoints(points, r) ==
    [k \in 1..(2 * ((Len(points) + 1) \div 2)) |->
        Add(IF k % 2 = 1 THEN r.ux ELSE r.uy,
            Mul(Sub(At(points, k - 1), IF k % 2 = 1 THEN r.ux ELSE r.uy),
                IF k % 2 = 1 THEN r.wr ELSE r.hr))]

PlaceBox(orig, o, newWidth, newHeight) ==
    [orig EXCEPT !.x = o.x, !.y = o.y, !.width = newWidth, !.height = newHeight]

ResizeBox(anchorIndex, orig, r, newWidth, newHeight) ==
    PlaceBox(orig, ResizeOrigin(anchorIndex, r, newWidth, newHeight), newWidth, newHeight)

\* the third part of resizeAnnotation: the branch on the annotation's type
ResizeBy(anchorIndex, orig, ob, r) ==
    CASE orig.type \in {"text", "image"}
         \/ (orig.type = "shape" /\ orig.shapeType \in {"rectangle", "ellipse"}) ->
               ResizeBox(anchorIndex, orig, r, Mul(ob.width, r.wr), Mul(ob.height, r.hr))
      [] orig.type = "stroke" \/ (orig.type = "shape" /\ orig.shapeType \in LineShapeTypes) ->
               [orig EXCEPT !.points = ScalePoints(orig.points, r)]
      [] OTHER -> orig

ResizeFrom(anchorIndex, orig, ob, newX, newY) ==
    ResizeBy(anchorIndex, orig, ob, ResizeRates(anchorIndex, ob, newX, newY))

resizeAnnotation(anchorIndex, orig, newX, newY) ==
    ResizeFrom(anchorIndex, orig, calculateBounds(orig), newX, newY)

(***************************************************************************)
(*                            HIT TESTING                                  *)
(* Math.sqrt(d2) < r is decided on the squares, which is exact.            *)
(***************************************************************************)
Sq(a) == Mul(a, a)
Dist2(x, y, px, py) == Add(Sq(Sub(x, px)), Sq(Sub(y, py)))
SqrtLt(d2, r) == Lt(I(0), r) /\ Lt(d2, Sq(r))
SqrtLe(d2, r) == Le(I(0), r) /\ Le(d2, Sq(r))
\* r < Math.sqrt(d2)
SqrtGt(d2, r) == IF Lt(r, I(0)) THEN Le(I(0), d2) ELSE Lt(Sq(r), d2)

hitThreshold == 10
controlPointThreshold == 8
anchorSize == 8
anchorTolerance == 12

\* the least element of a set of indices, or -1 (null) for the empty set
FirstOf(S) == IF S = {} THEN -1 ELSE CHOOSE i \in S : \A j \in S : i <= j

\* param of distanceToLineSegment
SegmentParam(dot, lenSq) == IF lenSq # I(0) THEN Div(dot, lenSq) ELSE I(-1)

\* xx (and yy) of distanceToLineSegment
Closest(param, v1, v2, c) ==
    IF Lt(param, I(0)) THEN v1 ELSE IF Lt(I(1), param) THEN v2 ELSE Add(v1, Mul(param, c))

ClosestDist2(x, y, x1, y1, x2, y2, C, D, param) ==
    Dist2(x, y, Closest(param, x1, x2, C), Closest(param, y1, y2, D))

SegmentDist2(x, y, x1, y1, x2, y2, C, D) ==
    ClosestDist2(x, y, x1, y1, x2, y2, C, D,
                 SegmentParam(Add(Mul(Sub(x, x1), C), Mul(Sub(y, y1), D)), Add(Sq(C), Sq(D))))

\* the square of distanceToLineSegment(x, y, x1, y1, x2, y2)
distanceToLineSegment2(x, y, x1, y1, x2, y2) ==
    SegmentDist2(x, y, x1, y1, x2, y2, Sub(x2, x1), Sub(y2, y1))

numSamples == 50

\* bx (and by) of distanceToBezierCurve at t, for oneMinusT = u
BezierCoord(t, u, c1, c2, c3) ==
    Add(Add(Mul(Mul(u, u), c1), Mul(Mul(Mul(I(2), u), t), c2)), Mul(Mul(t, t), c3))

BezierDist2(x, y, p, t, u) ==
    Dist2(x, y, BezierCoord(t, u, p[1], p[3], p[5]), BezierCoord(t, u, p[2], p[4], p[6]))

BezierSample(x, y, p, t) == BezierDist2(x, y, p, t, Sub(I(1), t))

\* the square of distanceToBezierCurve: the least over the 51 sampled curve points
distanceToBezierCurve2(x, y, p) ==
    IF Len(p) < 6 THEN PosInf
    ELSE MathMin([k \in 1..(numSamples + 1) |-> BezierSample(x, y, p, Q(k - 1, numSamples))])

\* x >= a.x && x <= a.x + a.width && y >= a.y && y <= a.y + a.height
InsideBox(x, y, a) ==
    /\ Le(a.x, x) /\ Le(x, Add(a.x, a.width))
    /\ Le(a.y, y) /\ Le(y, Add(a.y, a.height))

\* the 0-based even indices i < n the point loops visit
EvenBelow(n) == {i \in 0..(n - 1) : i % 2 = 0}

\* near one of the four edges of the rectangle and within its span
EdgeHit(x, y, left, top, right, bottom, t) ==
    \/ (Le(Abs(Sub(y, top)), t) \/ Le(Abs(Sub(y, bottom)), t)) /\ Le(left, x) /\ Le(x, right)
    \/ (Le(Abs(Sub(x, left)), t) \/ Le(Abs(Sub(x, right)), t)) /\ Le(top, y) /\ Le(y, bottom)

RectEdgeHit(x, y, a) ==
    EdgeHit(x, y, a.x, a.y, Add(a.x, a.width), Add(a.y, a.height), I(hitThreshold))

\* Math.abs(dist - radius) < 10
NearCircle(d2, radius) ==
    SqrtLt(d2, Add(radius, I(hitThreshold))) /\ SqrtGt(d2, Sub(radius, I(hitThreshold)))

EllipseHit(x, y, a) ==
    NearCircle(Dist2(x, y, Add(a.x, Div(a.width, I(2))), Add(a.y, Div(a.height, I(2)))),
               Div(Max2(a.width, a.height), I(2)))

\* the segments (x1, y1, x2, y2) that the line and polygon/polyline branches test
Segments(p, shapeType) ==
    IF shapeType = "line"
    THEN (IF Len(p) >= 4 THEN {<<p[1], p[2], p[3], p[4]>>} ELSE {})
    ELSE IF Len(p) < 6 THEN {}
    ELSE {<<At(p, i), At(p, i + 1), At(p, i + 2), At(p, i + 3)>> : i \in EvenBelow(Len(p) - 2)}
         \cup (IF shapeType = "polygon" THEN {<<p[Len(p) - 1], p[Len(p)], p[1], p[2]>>} ELSE {})

SegmentHit(x, y, a, r) ==
    \E s \in Segments(a.points, a.shapeType) :
        SqrtLt(distanceToLineSegment2(x, y, s[1], s[2], s[3], s[4]), r)

\* near one of the points the stroke loop visits
PointHit(x, y, p, r) ==
    \E i \in EvenBelow(Len(p) - 2) : SqrtLt(Dist2(x, y, At(p, i), At(p, i + 1)), r)

isPointInAnnotation(x, y, a) ==
    CASE a.type = "stroke" -> PointHit(x, y, a.points, I(hitThreshold))
      [] a.type = "shape" /\ a.shapeType = "ellipse" -> EllipseHit(x, y, a)
      [] a.type = "shape" /\ a.shapeType = "rectangle" -> RectEdgeHit(x, y, a)
      [] a.type = "shape" /\ a.shapeType \in {"line", "polygon", "polyline"} ->
            SegmentHit(x, y, a, I(hitThreshold))
      [] a.type = "shape" /\ a.shapeType = "bezier" ->
            Len(a.points) >= 6 /\ SqrtLt(distanceToBezierCurve2(x, y, a.points), I(hitThreshold))
      [] a.type \in {"text", "image"} -> InsideBox(x, y, a)
      [] OTHER -> FALSE

isAnnotationClick(x, y, a) ==
    CASE a.type \in {"shape", "stroke"} -> isPointInAnnotation(x, y, a)
      [] a.type \in {"text", "image"} -> InsideBox(x, y, a)
      [] OTHER -> FALSE

BoxContains(b, x, y) ==
    /\ Le(b.x, x) /\ Le(x, Add(b.x, b.width))
    /\ Le(b.y, y) /\ Le(y, Add(b.y, b.height))

isBoundingBoxClick(x, y, a) == BoxContains(calculateBounds(a), x, y)

\* the 0-based point index of the first control point within 8 px, or -1 (null)
getControlPointIndex(x, y, a) ==
    IF a.type = "shape" /\ a.shapeType \in LineShapeTypes
    THEN FirstOf({i \in EvenBelow(Len(a.points)) :
                    SqrtLe(Dist2(x, y, At(a.points, i), At(a.points, i + 1)),
                           I(controlPointThreshold))}) \div 2
    ELSE -1

isControlPointClick(x, y, a) == getControlPointIndex(x, y, a) # -1

\* the centres of the 8 anchors: anchor.x + anchorSize/2 and anchor.y + anchorSize/2
\* of the code's table, for h = anchorSize/2
AnchorX(i, b, h) ==
    CASE i \in {0, 6, 7} -> Add(Sub(b.x, h), h)
      [] i \in {1, 5} -> Add(Add(b.x, Div(b.width, I(2))), h)
      [] i \in {2, 3, 4} -> Add(Sub(Add(b.x, b.width), h), h)

AnchorY(i, b, h) ==
    CASE i \in {0, 1, 2} -> Add(Sub(b.y, h), h)
      [] i \in {3, 7} -> Add(Add(b.y, Div(b.height, I(2))), h)
      [] i \in {4, 5, 6} -> Add(Sub(Add(b.y, b.height), h), h)

HoveredAnchor(x, y, b, h) ==
    FirstOf({i \in 0..7 : SqrtLe(Dist2(x, y, AnchorX(i, b, h), AnchorY(i, b, h)),
                                 I(anchorTolerance))})

\* the first anchor within the tolerance, or -1 (null)
getHoveredAnchorIndex(x, y, a) ==
    IF ~a.isSelected THEN -1
    ELSE HoveredAnchor(x, y, calculateBounds(a), Div(I(anchorSize), I(2)))

\* min <= v <= max of isAnnotationInRect
Between(v, c1, c2) == Le(Min2(c1, c2), v) /\ Le(v, Max2(c1, c2))

InRectSpan(px, py, rect, right, bottom) ==
    Between(px, rect.x, right) /\ Between(py, rect.y, bottom)

InRectPoint(px, py, rect) ==
    InRectSpan(px, py, rect, Add(rect.x, rect.width), Add(rect.y, rect.height))

isAnnotationInRect(a, rect) ==
    CASE a.type = "stroke" ->
            \E i \in EvenBelow(Len(a.points)) : InRectPoint(At(a.points, i), At(a.points, i + 1), rect)
      [] a.type \in {"text", "image", "shape"} -> InRectPoint(a.x, a.y, rect)
      [] OTHER -> FALSE

\* Math.max(lo, Math.min(v, hi)) and the closest-point test of the eraser
BoxInCircle(x, y, radius, a) ==
    SqrtLt(Dist2(x, y, Max2(a.x, Min2(x, Add(a.x, a.width))),
                       Max2(a.y, Min2(y, Add(a.y, a.height)))), radius)

isAnnotationInEraserCircle(x, y, radius, a) ==
    CASE a.type = "stroke" -> PointHit(x, y, a.points, radius)
      [] a.type = "shape" /\ a.shapeType = "ellipse" ->
            SqrtLt(Dist2(x, y, Add(a.x, Div(a.width, I(2))), Add(a.y, Div(a.height, I(2)))),
                   Add(radius, Max2(Div(a.width, I(2)), Div(a.height, I(2)))))
      [] a.type \in {"text", "image"} \/ (a.type = "shape" /\ a.shapeType = "rectangle") ->
            BoxInCircle(x, y, radius, a)
      [] a.type = "shape" /\ a.shapeType \in {"line", "polygon", "polyline"} ->
            SegmentHit(x, y, a, radius)
      [] a.type = "shape" /\ a.shapeType = "bezier" ->
            Len(a.points) >= 6 /\ SqrtLt(distanceToBezierCurve2(x, y, a.points), radius)
      [] OTHER -> FALSE

(***************************************************************************)
(*                       THE STATE OF THE APPLICATION                      *)
(* A nullable value is <<>> (null) or <<v>>; a nullable index is -1 for    *)
(* null.  An id is [k, t, r]: `${k}-${t}` for r = 0 (t the value of        *)
(* Date.now()), `${k}_${t}_${random}` for a duplicate (r > 0).             *)
(***************************************************************************)
VARIABLES
    tool, annotations, history, historyStep, color,
    isDrawing, currentPoints, selectionRect, dragState, resizeState,
    selectedShapeType, editingAnnotationId, editingControlPointIndex,
    isDrawingPolygon, polygonPoints, isDrawingLine, linePoints,
    isDrawingBezier, bezierPoints,
    doubleClickPending, timers,   \* Canvas: the ref and the pending 250 ms timeouts
    editingTextId,                \* Canvas: the text annotation under the textarea
    now,                          \* what Date.now() returns
    pressed,                      \* the pointer button is held over the canvas
    last,                         \* the handler that saved to the history last, or the
                                  \* key that handleKeyDown saw since and let pass
    rz,                           \* one application of resizeAnnotation (SpecResize)
    rt,                           \* the phase of the undo/redo round trip (SpecRoundTrip),
                                  \* the commits of the eraser gesture (SpecGesture),
                                  \* the presses of the double click (SpecDoubleClick),
                                  \* the image upload in flight (SpecUpload)
    env                           \* the limits of the explored environment

histVars == <<history, historyStep>>
polyVars == <<isDrawingPolygon, polygonPoints>>
lineVars == <<isDrawingLine, linePoints>>
bezierVars == <<isDrawingBezier, bezierPoints>>
editVars == <<editingAnnotationId, editingControlPointIndex>>
canvasVars == <<doubleClickPending, timers, editingTextId>>
appVars == <<tool, annotations, history, historyStep, color, isDrawing, currentPoints,
             selectionRect, dragState, resizeState, selectedShapeType,
             editingAnnotationId, editingControlPointIndex, isDrawingPolygon,
             polygonPoints, isDrawingLine, linePoints, isDrawingBezier, bezierPoints,
             doubleClickPending, timers, editingTextId, now, pressed>>
vars == <<appVars, last, rz, rt, env>>

\* ---- bounds of the model ----
MaxAnn == 2        \* annotations in the working collection
MaxHist == 3       \* length of history
MaxClock == 1      \* largest value of Date.now()
MaxPoly == 3       \* accumulated polygon/polyline vertices
MaxStroke == 2     \* coordinate pairs of a freehand stroke
MaxTimers == 1     \* pending deferred polyline clicks
MaxCoord == 40     \* |position| a drag or a resize may reach

Tools == {"select", "brush", "shape", "text", "eraser"}
ShapeTypes == {"rectangle", "ellipse", "line", "polygon", "polyline", "bezier"}
Colors == {"#000000", "#ff0000"}
Texts == {"", "a"}
PtCoords == {<<0, 0>>, <<20, 20>>, <<40, 40>>}
Pts == {[x |-> I(c[1]), y |-> I(c[2])] : c \in PtCoords}

NoDrag == [isDragging |-> FALSE, startPoint |-> <<>>, offset |-> [x |-> I(0), y |-> I(0)]]
NoResize == [isResizing |-> FALSE, startPoint |-> <<>>, currentPoint |-> <<>>,
             anchorIndex |-> -1, originalAnnotation |-> <<>>]
NoOp == "init"
NoRz == [phase |-> "off"]
NoRt == [phase |-> "off", n |-> 0, k |-> 0]

InitApp ==
    /\ tool = "brush"
    /\ annotations = <<>>
    /\ history = <<(<<>>)>>
    /\ historyStep = 0
    /\ color = "#000000"
    /\ isDrawing = FALSE
    /\ currentPoints = <<>>
    /\ selectionRect = <<>>
    /\ dragState = NoDrag
    /\ resizeState = NoResize
    /\ selectedShapeType = "rectangle"
    /\ editingAnnotationId = <<>>
    /\ editingControlPointIndex = -1
    /\ isDrawingPolygon = FALSE
    /\ polygonPoints = <<>>
    /\ isDrawingLine = FALSE
    /\ linePoints = <<>>
    /\ isDrawingBezier = FALSE
    /\ bezierPoints = <<>>
    /\ doubleClickPending = FALSE
    /\ timers = <<>>
    /\ editingTextId = <<>>
    /\ now = 0
    /\ pressed = FALSE

\* drawn: annotations on the canvas before the user stops drawing new ones;
\* hist: the length of the history before the user stops without an undo
Init ==
    /\ InitApp /\ last = NoOp /\ rz = NoRz /\ rt = NoRt
    /\ env = [drawn |-> MaxAnn, hist |-> MaxHist]

\* ---- helpers over collections ----
SeqFilter(s, Keep(_)) ==
    LET F[i \in 0..Len(s)] ==
            IF i = 0 THEN <<>> ELSE IF Keep(s[i]) THEN Append(F[i - 1], s[i]) ELSE F[i - 1]
    IN  F[Len(s)]

\* annotations.find(test): <<>> or <<the first match>>
SeqFind(s, Test(_)) ==
    LET hits == {i \in 1..Len(s) : Test(s[i])}
    IN  IF hits = {} THEN <<>> ELSE <<s[CHOOSE i \in hits : \A j \in hits : i <= j]>>

SeqIncludes(s, v) == \E i \in 1..Len(s) : s[i] = v

IsSelected(a) == a.isSelected
getSelectedAnnotations(anns) == SeqFilter(anns, IsSelected)
IdsOf(s) == [i \in 1..Len(s) |-> s[i].id]
getSelectedIds(anns) == IdsOf(getSelectedAnnotations(anns))

selectAnnotations(anns, ids, clearOthers) ==
    [i \in 1..Len(anns) |->
        IF SeqIncludes(ids, anns[i].id)
        THEN [anns[i] EXCEPT !.isSelected = TRUE, !.isEditing = (Len(ids) = 1)]
        ELSE IF clearOthers
        THEN [anns[i] EXCEPT !.isSelected = FALSE, !.isEditing = FALSE]
        ELSE anns[i]]

clearSelection(anns) ==
    [i \in 1..Len(anns) |-> [anns[i] EXCEPT !.isSelected = FALSE, !.isEditing = FALSE]]

\* the (history, historyStep) that saveToHistory(newAnnotations) sets, computed
\* from the history and historyStep of the render the handler was created in
\* saveToHistory without the slice: the entries after the cursor stay
saveToHistory_keepRedo(h, step, newAnnotations) ==
    LET newHistory == Append(h, newAnnotations)
    IN  [history |-> newHistory, historyStep |-> Len(newHistory) - 1]

\* saveToHistory whose kept entries share the new collection
saveToHistory_shared(h, step, newAnnotations) ==
    LET newHistory == [i \in 1..(step + 2) |-> newAnnotations]
    IN  [history |-> newHistory, historyStep |-> Len(newHistory) - 1]

\* saveToHistory that moves the cursor to the end of the history it was given
saveToHistory_oldEnd(h, step, newAnnotations) ==
    LET newHistory == Append(SubSeq(h, 1, step + 1), newAnnotations)
    IN  [history |-> newHistory, historyStep |-> Len(h)]

saveToHistory(h, step, newAnnotations) ==
    LET newHistory == Append(SubSeq(h, 1, step + 1), newAnnotations)
    IN  [history |-> newHistory, historyStep |-> Len(newHistory) - 1]

\* a handler that saves the collection of its render instead of the new one
Commit_stale(snap, op) ==
    /\ historyStep + 2 <= env.hist
    /\ history' = saveToHistory(history, historyStep, annotations).history
    /\ historyStep' = saveToHistory(history, historyStep, annotations).historyStep
    /\ last' = op

\* the handler saved `snap`; the history stays within the explored length
Commit(snap, op) ==
    /\ historyStep + 2 <= env.hist
    /\ history' = saveToHistory(history, historyStep, snap).history
    /\ historyStep' = saveToHistory(history, historyStep, snap).historyStep
    /\ last' = op

\* the handler saved nothing
NoCommit == UNCHANGED <<history, historyStep, last>>

\* ---- constructors ----
BaseAnn == [id |-> [k |-> "", t |-> 0, r |-> 0], type |-> "", shapeType |-> "none",
            color |-> "", strokeWidth |-> 0, x |-> Undef, y |-> Undef,
            width |-> Undef, height |-> Undef, points |-> <<>>, text |-> "",
            fontSize |-> 0, image |-> "none", isSelected |-> FALSE, isEditing |-> FALSE]

NewId(k, t) == [k |-> k, t |-> t, r |-> 0]

FlatPoints(pts) == [k \in 1..(2 * Len(pts)) |-> IF k % 2 = 1 THEN pts[(k + 1) \div 2].x ELSE pts[k \div 2].y]

\* createShapeAnnotation for the bounds b of its points
ShapeWithin(b, points, shapeType, c, t) ==
    createAnnotation([BaseAnn EXCEPT
        !.id = NewId("shape", t), !.type = "shape",
        !.x = b.x, !.y = b.y, !.width = b.width, !.height = b.height,
        !.color = c, !.strokeWidth = strokeWidth,
        !.shapeType = shapeType, !.points = points])

\* createShapeAnnotation for the flat array of its points
ShapeOf(points, shapeType, c, t) ==
    ShapeWithin(BoundsFrom(MathMin(XsOf(points)), MathMin(YsOf(points)),
                           MathMax(XsOf(points)), MathMax(YsOf(points))),
                points, shapeType, c, t)

createShapeAnnotation(pts, shapeType, c, t) == ShapeOf(FlatPoints(pts), shapeType, c, t)

\* the stroke of handleMouseUp (brush)
NewStroke(points, c, t) ==
    createAnnotation([BaseAnn EXCEPT
        !.id = NewId("stroke", t), !.type = "stroke", !.points = points,
        !.color = c, !.strokeWidth = strokeWidth])

\* the rectangle, ellipse or line of handleMouseUp (drag-and-release)
NewDragShape(cp, shapeType, c, t) ==
    createAnnotation([BaseAnn EXCEPT
        !.id = NewId("shape", t), !.type = "shape",
        !.x = Min2(cp[1], cp[3]), !.y = Min2(cp[2], cp[4]),
        !.width = Abs(Sub(cp[3], cp[1])), !.height = Abs(Sub(cp[4], cp[2])),
        !.color = c, !.strokeWidth = strokeWidth,
        !.shapeType = shapeType, !.points = cp])

minTextWidth == 200
minTextHeight == 50
textFontSize == 24

\* the text annotation of handleMouseUp (text)
NewText(rect, c, t) ==
    createAnnotation([BaseAnn EXCEPT
        !.id = NewId("text", t), !.type = "text", !.text = "",
        !.x = rect.x, !.y = rect.y, !.color = c, !.strokeWidth = 0,
        !.fontSize = textFontSize,
        !.width = Max2(Abs(rect.width), I(minTextWidth)),
        !.height = Max2(Abs(rect.height), I(minTextHeight))])

\* JSON.parse(JSON.stringify(a)): non-finite numbers become null, the image {}
JsonCopy(a) ==
    [a EXCEPT !.x = JsonNum(a.x), !.y = JsonNum(a.y),
              !.width = JsonNum(a.width), !.height = JsonNum(a.height),
              !.points = SeqMap(JsonNum, a.points),
              !.image = IF a.image = "none" THEN "none" ELSE "{}"]

(***************************************************************************)
(*                 HANDLERS OUTSIDE THE POINTER GESTURES                   *)
(* A handler runs to completion on the state of the current render.  The   *)
(* toolbar is operated with the mouse, hence between canvas gestures; the  *)
(* keyboard shortcuts arrive at any moment.                                *)
(***************************************************************************)
IsText(a) == a.type = "text"

\* Canvas: the effect that opens the textarea on the newest empty text
\* annotation whenever the collection has grown
TextEffect ==
    editingTextId' =
        IF Len(annotations') > Len(annotations) /\ editingTextId = <<>>
        THEN LET texts == SeqFilter(annotations', IsText)
             IN  IF texts # <<>> /\ texts[Len(texts)].text = ""
                 THEN <<texts[Len(texts)].id>> ELSE <<>>
        ELSE editingTextId

\* the timestamps of the ids in the working collection and in the history
UsedTimes ==
    {annotations[i].id.t : i \in 1..Len(annotations)} \cup
    UNION {{history[j][i].id.t : i \in 1..Len(history[j])} : j \in 1..Len(history)}

\* Date.now() advances; a tick that no id can tell from the previous one is
\* left out
Tick ==
    /\ now < MaxClock
    /\ now \in UsedTimes
    /\ now' = now + 1
    /\ UNCHANGED <<tool, annotations, history, historyStep, color, isDrawing,
                   currentPoints, selectionRect, dragState, resizeState,
                   selectedShapeType, editVars, polyVars, lineVars, bezierVars,
                   canvasVars, pressed, last, rz, rt, env>>

\* what handleUndo and handleRedo set: [annotations, historyStep]
\* handleUndo that moves the cursor and restores the entry it came from
handleUndo_stale(anns, h, step) ==
    IF step > 0 THEN [annotations |-> h[step + 1], historyStep |-> step - 1]
    ELSE [annotations |-> anns, historyStep |-> step]

handleUndo(anns, h, step) ==
    IF step > 0 THEN [annotations |-> h[step], historyStep |-> step - 1]
    ELSE [annotations |-> anns, historyStep |-> step]

\* handleRedo that moves the cursor and restores the entry it came from
handleRedo_stale(anns, h, step) ==
    IF step < Len(h) - 1 THEN [annotations |-> h[step + 1], historyStep |-> step + 1]
    ELSE [annotations |-> anns, historyStep |-> step]

handleRedo(anns, h, step) ==
    IF step < Len(h) - 1 THEN [annotations |-> h[step + 2], historyStep |-> step + 1]
    ELSE [annotations |-> anns, historyStep |-> step]

canUndo == historyStep > 0
canRedo == historyStep < Len(history) - 1

\* handleKeyDown, Ctrl/Cmd+Z, and the toolbar's undo button: what they do to
\* the application
UndoKey ==
    /\ annotations' = (IF canUndo THEN handleUndo(annotations, history, historyStep).annotations
                       ELSE annotations)
    /\ historyStep' = (IF canUndo THEN handleUndo(annotations, history, historyStep).historyStep
                       ELSE historyStep)
    /\ last' = last
    /\ TextEffect
    /\ UNCHANGED <<tool, history, color, isDrawing, currentPoints, selectionRect,
                   dragState, resizeState, selectedShapeType, editVars, polyVars,
                   lineVars, bezierVars, doubleClickPending, timers, now, pressed>>

Undo == UndoKey /\ UNCHANGED <<rz, rt, env>>

\* handleKeyDown, Ctrl/Cmd+Y or Ctrl/Cmd+Shift+Z, and the toolbar's redo button
RedoKey ==
    /\ annotations' = (IF canRedo THEN handleRedo(annotations, history, historyStep).annotations
                       ELSE annotations)
    /\ historyStep' = (IF canRedo THEN handleRedo(annotations, history, historyStep).historyStep
                       ELSE historyStep)
    /\ last' = last
    /\ TextEffect
    /\ UNCHANGED <<tool, history, color, isDrawing, currentPoints, selectionRect,
                   dragState, resizeState, selectedShapeType, editVars, polyVars,
                   lineVars, bezierVars, doubleClickPending, timers, now, pressed>>

Redo == RedoKey /\ UNCHANGED <<rz, rt, env>>

\* the keys of the keyboard events considered, with their modifiers
KeyEvents == [key : {"z", "y", "d", "Delete", "Escape"}, ctrlKey : BOOLEAN, shiftKey : BOOLEAN]

KeyLabel(e) ==
    CASE e.key = "Delete" /\ ~e.ctrlKey -> "keyDelete"
      [] e.key = "d" /\ e.ctrlKey -> "keyCtrlD"
      [] e.key = "Escape" /\ ~e.ctrlKey -> "keyEscape"
      [] OTHER -> "key"

\* handleKeyDown, the listener of the document: Ctrl/Cmd+Z undoes,
\* Ctrl/Cmd+Y and Ctrl/Cmd+Shift+Z redo, and no other key has a branch
handleKeyDown(e) ==
    IF e.ctrlKey /\ e.key = "z" /\ ~e.shiftKey
    THEN Undo
    ELSE IF e.ctrlKey /\ (e.key = "y" \/ (e.key = "z" /\ e.shiftKey))
    THEN Redo
    ELSE /\ last' = KeyLabel(e)
         /\ UNCHANGED <<appVars, rz, rt, env>>

NotSelected(a) == ~a.isSelected

\* the toolbar shows Delete and Duplicate while something is selected
\* a delete that removes the annotation being edited only
handleDelete_editing ==
    /\ ~pressed
    /\ getSelectedAnnotations(annotations) # <<>>
    /\ annotations' = SeqFilter(annotations, LAMBDA x : ~x.isEditing)
    /\ Commit(SeqFilter(annotations, LAMBDA x : ~x.isEditing), "delete")
    /\ TextEffect
    /\ UNCHANGED <<tool, color, isDrawing, currentPoints, selectionRect, dragState,
                   resizeState, selectedShapeType, editVars, polyVars, lineVars,
                   bezierVars, doubleClickPending, timers, now, pressed, rz, rt, env>>

handleDelete ==
    /\ ~pressed
    /\ getSelectedAnnotations(annotations) # <<>>
    /\ annotations' = SeqFilter(annotations, NotSelected)
    /\ Commit(SeqFilter(annotations, NotSelected), "delete")
    /\ TextEffect
    /\ UNCHANGED <<tool, color, isDrawing, currentPoints, selectionRect, dragState,
                   resizeState, selectedShapeType, editVars, polyVars, lineVars,
                   bezierVars, doubleClickPending, timers, now, pressed, rz, rt, env>>

\* Math.random() never repeats: a duplicate gets a number that no id still in
\* use carries (the collection, the history up to the cursor, the ids held by
\* a gesture or by the textarea)
UsedRandoms ==
    {annotations[i].id.r : i \in 1..Len(annotations)}
    \cup UNION {{history[j][i].id.r : i \in 1..Len(history[j])} : j \in 1..(historyStep + 1)}
    \cup {editingTextId[i].r : i \in 1..Len(editingTextId)}
    \cup {editingAnnotationId[i].r : i \in 1..Len(editingAnnotationId)}
    \cup {resizeState.originalAnnotation[i].id.r : i \in 1..Len(resizeState.originalAnnotation)}

\* the i-th smallest positive number that is not in use
FreshRandom(i) ==
    LET free == (1..(Cardinality(UsedRandoms) + i)) \ UsedRandoms
    IN  CHOOSE k \in free : Cardinality({j \in free : j < k}) = i - 1

DuplicateOf(a, t, r) ==
    createAnnotation([a EXCEPT
        !.id = [k |-> a.type, t |-> t, r |-> r],
        !.x = IF a.x # Undef THEN Add(a.x, I(20)) ELSE a.x,
        !.y = IF a.y # Undef THEN Add(a.y, I(20)) ELSE a.y])

handleDuplicate ==
    /\ ~pressed
    /\ getSelectedAnnotations(annotations) # <<>>
    /\ LET toDuplicate == getSelectedAnnotations(annotations)
           duplicated == [i \in 1..Len(toDuplicate) |->
                            DuplicateOf(toDuplicate[i], now, FreshRandom(i))]
       IN  /\ Len(annotations) + Len(toDuplicate) <= MaxAnn
           /\ annotations' = annotations \o duplicated
           /\ Commit(annotations \o duplicated, "duplicate")
    /\ TextEffect
    /\ UNCHANGED <<tool, color, isDrawing, currentPoints, selectionRect, dragState,
                   resizeState, selectedShapeType, editVars, polyVars, lineVars,
                   bezierVars, doubleClickPending, timers, now, pressed, rz, rt, env>>

\* ---- image upload ----
\* the width and height of the decoded images
ImageSizes == {[width |-> I(40), height |-> I(20)]}

\* the annotation img.onload makes of the decoded image
NewImage(img, t) ==
    createAnnotation([BaseAnn EXCEPT
        !.id = NewId("image", t), !.type = "image", !.image = "img",
        !.x = I(100), !.y = I(100),
        !.width = Div(img.width, I(2)), !.height = Div(img.height, I(2)),
        !.color = "#000000", !.strokeWidth = 0])

\* handleImageUpload: the file is handed to a FileReader; reader.onload and
\* img.onload keep the annotations and the saveToHistory (history,
\* historyStep) of the render of the upload
handleImageUpload ==
    /\ ~pressed
    /\ rt = NoRt
    /\ rt' = [phase |-> "upload", annotations |-> annotations,
              history |-> history, historyStep |-> historyStep]
    /\ UNCHANGED <<appVars, last, rz, env>>

\* img.onload, once the file is read and decoded
ImageLoaded(img) ==
    /\ rt.phase = "upload"
    /\ Len(rt.annotations) < MaxAnn
    /\ rt.historyStep + 2 <= env.hist
    /\ annotations' = Append(rt.annotations, NewImage(img, now))
    /\ history' = saveToHistory(rt.history, rt.historyStep,
                                Append(rt.annotations, NewImage(img, now))).history
    /\ historyStep' = saveToHistory(rt.history, rt.historyStep,
                                    Append(rt.annotations, NewImage(img, now))).historyStep
    /\ last' = "imageLoaded"
    /\ rt' = NoRt
    /\ TextEffect
    /\ UNCHANGED <<tool, color, isDrawing, currentPoints, selectionRect, dragState,
                   resizeState, selectedShapeType, editVars, polyVars, lineVars,
                   bezierVars, doubleClickPending, timers, now, pressed, rz, env>>

Recolor(anns, newColor) ==
    [i \in 1..Len(anns) |-> IF anns[i].isSelected THEN [anns[i] EXCEPT !.color = newColor] ELSE anns[i]]

handleColorChange(newColor) ==
    /\ ~pressed
    /\ IF getSelectedAnnotations(annotations) # <<>>
       THEN /\ annotations' = Recolor(annotations, newColor)
            /\ Commit(Recolor(annotations, newColor), "colorSelection")
       ELSE /\ annotations' = annotations
            /\ NoCommit
    /\ color' = newColor
    /\ TextEffect
    /\ UNCHANGED <<tool, isDrawing, currentPoints, selectionRect, dragState,
                   resizeState, selectedShapeType, editVars, polyVars, lineVars,
                   bezierVars, doubleClickPending, timers, now, pressed, rz, rt, env>>

\* the annotations that handleToolChange and onShapeTypeChange create from the
\* flows in progress, in the order of their setAnnotations calls
\* the finished flows, a polygon in progress taken for a polyline
FlowAnnotations_polygon ==
    (IF isDrawingPolygon /\ Len(polygonPoints) >= 2
     THEN <<createShapeAnnotation(polygonPoints, selectedShapeType, color, now)>> ELSE <<>>)
    \o (IF isDrawingLine /\ Len(linePoints) >= 2
        THEN <<createShapeAnnotation(linePoints, "line", color, now)>> ELSE <<>>)
    \o (IF isDrawingBezier /\ Len(bezierPoints) >= 4
        THEN <<createShapeAnnotation(bezierPoints, "bezier", color, now)>> ELSE <<>>)

FlowAnnotations ==
    (IF isDrawingPolygon /\ selectedShapeType = "polyline" /\ Len(polygonPoints) >= 2
     THEN <<createShapeAnnotation(polygonPoints, selectedShapeType, color, now)>> ELSE <<>>)
    \o (IF isDrawingLine /\ Len(linePoints) >= 2
        THEN <<createShapeAnnotation(linePoints, "line", color, now)>> ELSE <<>>)
    \o (IF isDrawingBezier /\ Len(bezierPoints) >= 4
        THEN <<createShapeAnnotation(bezierPoints, "bezier", color, now)>> ELSE <<>>)

\* the part handleToolChange and onShapeTypeChange share; `base` is the
\* collection the functional updates start from
FinalizeWith(base, op, flows) ==
    /\ Len(annotations) + Len(flows) <= env.drawn
    /\ annotations' = base \o flows
    /\ IF flows # <<>>
       THEN Commit(Append(annotations, flows[Len(flows)]), op)
       ELSE NoCommit
    /\ IF isDrawingPolygon /\ selectedShapeType \in {"polygon", "polyline"}
       THEN isDrawingPolygon' = FALSE /\ polygonPoints' = <<>>
       ELSE UNCHANGED polyVars
    /\ IF isDrawingLine THEN isDrawingLine' = FALSE /\ linePoints' = <<>>
       ELSE UNCHANGED lineVars
    /\ IF isDrawingBezier THEN isDrawingBezier' = FALSE /\ bezierPoints' = <<>>
       ELSE UNCHANGED bezierVars

FinalizeFlows(base, op) == FinalizeWith(base, op, FlowAnnotations)

\* a tool switch that leaves the accumulations as they are
handleToolChange_keeps(newTool) ==
    /\ ~pressed
    /\ ~(tool = "shape" /\ newTool = "shape")
    /\ annotations' = (IF tool = "select" /\ newTool # "select"
                       THEN clearSelection(annotations) ELSE annotations)
    /\ NoCommit
    /\ tool' = newTool
    /\ TextEffect
    /\ UNCHANGED <<color, isDrawing, currentPoints, selectionRect, dragState,
                   resizeState, selectedShapeType, editVars, polyVars, lineVars,
                   bezierVars, doubleClickPending, timers, now, pressed, rz, rt, env>>

\* a tool icon of the toolbar; the shape icon only opens its menu while the
\* shape tool is active
handleToolChange(newTool) ==
    /\ ~pressed
    /\ ~(tool = "shape" /\ newTool = "shape")
    /\ FinalizeFlows(IF tool = "select" /\ newTool # "select"
                     THEN clearSelection(annotations) ELSE annotations, "toolChange")
    /\ tool' = newTool
    /\ TextEffect
    /\ UNCHANGED <<color, isDrawing, currentPoints, selectionRect, dragState,
                   resizeState, selectedShapeType, editVars, doubleClickPending,
                   timers, now, pressed, rz, rt, env>>

\* an entry of the shape menu, shown while the shape tool is active
onShapeTypeChange(newShapeType) ==
    /\ ~pressed
    /\ tool = "shape"
    /\ FinalizeFlows(annotations, "shapeTypeChange")
    /\ selectedShapeType' = newShapeType
    /\ TextEffect
    /\ UNCHANGED <<tool, color, isDrawing, currentPoints, selectionRect, dragState,
                   resizeState, editVars, doubleClickPending, timers, now, pressed, rz, rt, env>>

(***************************************************************************)
(*                            POINTER DOWN                                 *)
(* Canvas.handleMouseDown filters the event (vertex clicks, the deferred   *)
(* polyline click) and otherwise calls DrawingApp.handleMouseDown.         *)
(***************************************************************************)
vertexThreshold == 15

\* the 0-based index of the first vertex of the flow within 15 px, or -1
VertexAt(p) ==
    FirstOf({i \in 0..(Len(polygonPoints) - 1) :
                SqrtLe(Dist2(p.x, p.y, polygonPoints[i + 1].x, polygonPoints[i + 1].y),
                       I(vertexThreshold))})

\* which branch of Canvas.handleMouseDown and DrawingApp.handleMouseDown a
\* pointer-down at p takes
\* a pointer-down that tries the anchors before the control points
SelectCaseOf_anchorFirst(p, multi, sel) ==
    IF Len(sel) = 1 /\ sel[1].isEditing
       /\ getHoveredAnchorIndex(p.x, p.y, sel[1]) # -1 THEN "anchor"
    ELSE IF Len(sel) = 1 /\ isControlPointClick(p.x, p.y, sel[1]) THEN "controlPoint"
    ELSE IF \E i \in 1..Len(annotations) :
                annotations[i].isSelected /\ isBoundingBoxClick(p.x, p.y, annotations[i])
         THEN "drag"
    ELSE IF \E i \in 1..Len(annotations) :
                ~annotations[i].isSelected /\ isAnnotationClick(p.x, p.y, annotations[i])
         THEN "click"
    ELSE IF multi THEN "nothing"
    ELSE "marquee"

SelectCaseOf(p, multi, sel) ==
    IF Len(sel) = 1 /\ isControlPointClick(p.x, p.y, sel[1]) THEN "controlPoint"
    ELSE IF Len(sel) = 1 /\ sel[1].isEditing
            /\ getHoveredAnchorIndex(p.x, p.y, sel[1]) # -1 THEN "anchor"
    ELSE IF \E i \in 1..Len(annotations) :
                annotations[i].isSelected /\ isBoundingBoxClick(p.x, p.y, annotations[i])
         THEN "drag"
    ELSE IF \E i \in 1..Len(annotations) :
                ~annotations[i].isSelected /\ isAnnotationClick(p.x, p.y, annotations[i])
         THEN "click"
    ELSE IF multi THEN "nothing"
    ELSE "marquee"

SelectCase(p, multi) == SelectCaseOf(p, multi, getSelectedAnnotations(annotations))

\* which branch a pointer-down takes with the shape tool, for v = VertexAt(p)
ShapeCaseOf(v) ==
    IF selectedShapeType = "polyline" /\ isDrawingPolygon
    THEN (IF v # -1 THEN "vertex" ELSE "defer")
    ELSE IF isDrawingPolygon /\ selectedShapeType = "polygon" /\ v # -1 THEN "vertex"
    ELSE IF selectedShapeType \in {"polygon", "polyline"} THEN "poly"
    ELSE IF selectedShapeType = "line"
    THEN (IF isDrawingLine THEN "lineEnd" ELSE "lineStart")
    ELSE IF selectedShapeType = "bezier" THEN "bezier"
    ELSE "box"

ShapeCase(p) == ShapeCaseOf(VertexAt(p))

StartAt(p) == [dragState EXCEPT !.startPoint = <<p>>]


\* Canvas: a click on a vertex of the polygon/polyline flow; handleVertexClick
\* a vertex click that closes the polygon one vertex early
DownVertex_early(p) ==
    /\ ~pressed /\ pressed' = TRUE
    /\ tool = "shape"
    /\ ShapeCase(p) = "vertex"
    /\ IF tool = "shape" /\ isDrawingPolygon /\ selectedShapeType = "polygon"
          /\ Len(polygonPoints) > 1 /\ VertexAt(p) = 0
       THEN /\ Len(annotations) < env.drawn
            /\ annotations' = Append(annotations,
                    createShapeAnnotation(polygonPoints, selectedShapeType, color, now))
            /\ Commit(Append(annotations,
                    createShapeAnnotation(polygonPoints, selectedShapeType, color, now)),
                    "polygonClose")
            /\ isDrawingPolygon' = FALSE
            /\ polygonPoints' = <<>>
       ELSE /\ Len(polygonPoints) < MaxPoly
            /\ polygonPoints' = Append(polygonPoints, polygonPoints[VertexAt(p) + 1])
            /\ NoCommit
            /\ UNCHANGED <<annotations, isDrawingPolygon>>
    /\ TextEffect
    /\ UNCHANGED <<tool, color, isDrawing, currentPoints, selectionRect, dragState,
                   resizeState, selectedShapeType, editVars, lineVars, bezierVars,
                   doubleClickPending, timers, now, rz, rt, env>>

VertexClick(p) ==
    /\ ~pressed /\ pressed' = TRUE
    /\ tool = "shape"
    /\ ShapeCase(p) = "vertex"
    /\ IF tool = "shape" /\ isDrawingPolygon /\ selectedShapeType = "polygon"
          /\ Len(polygonPoints) > 2 /\ VertexAt(p) = 0
       THEN /\ Len(annotations) < env.drawn
            /\ annotations' = Append(annotations,
                    createShapeAnnotation(polygonPoints, selectedShapeType, color, now))
            /\ Commit(Append(annotations,
                    createShapeAnnotation(polygonPoints, selectedShapeType, color, now)),
                    "polygonClose")
            /\ isDrawingPolygon' = FALSE
            /\ polygonPoints' = <<>>
       ELSE /\ Len(polygonPoints) < MaxPoly
            /\ polygonPoints' = Append(polygonPoints, polygonPoints[VertexAt(p) + 1])
            /\ NoCommit
            /\ UNCHANGED <<annotations, isDrawingPolygon>>
    /\ TextEffect
    /\ UNCHANGED <<tool, color, isDrawing, currentPoints, selectionRect, dragState,
                   resizeState, selectedShapeType, editVars, lineVars, bezierVars,
                   doubleClickPending, timers, now>>

DownVertex(p) == VertexClick(p) /\ UNCHANGED <<rz, rt, env>>

\* Canvas: a click during the polyline flow waits 250 ms for a double click
\* the pending timeouts explored
TimerLimit == IF "timers" \in DOMAIN env THEN env.timers ELSE MaxTimers

DeferClick(p) ==
    /\ ~pressed /\ pressed' = TRUE
    /\ tool = "shape"
    /\ ShapeCase(p) = "defer"
    /\ Len(timers) < TimerLimit
    /\ doubleClickPending' = TRUE
    /\ timers' = Append(timers, p)
    /\ NoCommit
    /\ UNCHANGED <<tool, annotations, color, isDrawing, currentPoints, selectionRect,
                   dragState, resizeState, selectedShapeType, editVars, polyVars,
                   lineVars, bezierVars, editingTextId, now>>

DownDefer(p) == DeferClick(p) /\ UNCHANGED <<rz, rt, env>>

\* the timeout of a deferred click: the handleMouseDown of the render of the
\* click (shape tool, polyline, flow in progress) appends the point
TimerFire ==
    /\ timers # <<>>
    /\ timers' = Tail(timers)
    /\ IF doubleClickPending
       THEN /\ Len(polygonPoints) < MaxPoly
            /\ polygonPoints' = Append(polygonPoints, Head(timers))
            /\ dragState' = StartAt(Head(timers))
            /\ doubleClickPending' = FALSE
            /\ NoCommit
       ELSE /\ NoCommit
            /\ UNCHANGED <<polygonPoints, dragState, doubleClickPending>>
    /\ UNCHANGED <<tool, annotations, color, isDrawing, currentPoints, selectionRect,
                   resizeState, selectedShapeType, editVars, isDrawingPolygon,
                   lineVars, bezierVars, editingTextId, now, pressed, rz, rt, env>>

\* select tool: grab a control point of the single selected annotation
DownControlPoint(p) ==
    /\ ~pressed /\ pressed' = TRUE
    /\ tool = "select"
    /\ \E multi \in BOOLEAN : SelectCase(p, multi) = "controlPoint"
    /\ LET sel == getSelectedAnnotations(annotations)[1]
       IN  /\ editingAnnotationId' = <<sel.id>>
           /\ editingControlPointIndex' = getControlPointIndex(p.x, p.y, sel)
    /\ dragState' = [isDragging |-> TRUE, startPoint |-> <<p>>,
                     offset |-> [x |-> I(0), y |-> I(0)]]
    /\ isDrawing' = TRUE
    /\ NoCommit
    /\ UNCHANGED <<tool, annotations, color, currentPoints, selectionRect, resizeState,
                   selectedShapeType, polyVars, lineVars, bezierVars, canvasVars,
                   now, rz, rt, env>>

\* select tool: grab an anchor of the single selected annotation in editing mode
DownAnchor(p) ==
    /\ ~pressed /\ pressed' = TRUE
    /\ tool = "select"
    /\ \E multi \in BOOLEAN : SelectCase(p, multi) = "anchor"
    /\ LET sel == getSelectedAnnotations(annotations)[1]
       IN  resizeState' = [isResizing |-> TRUE, startPoint |-> <<p>>,
                           currentPoint |-> <<p>>,
                           anchorIndex |-> getHoveredAnchorIndex(p.x, p.y, sel),
                           originalAnnotation |-> <<JsonCopy(sel)>>]
    /\ dragState' = StartAt(p)
    /\ isDrawing' = TRUE
    /\ NoCommit
    /\ UNCHANGED <<tool, annotations, color, currentPoints, selectionRect,
                   selectedShapeType, editVars, polyVars, lineVars, bezierVars,
                   canvasVars, now, rz, rt, env>>

\* select tool: grab the bounding box of a selected annotation
DownDrag(p) ==
    /\ ~pressed /\ pressed' = TRUE
    /\ tool = "select"
    /\ \E multi \in BOOLEAN : SelectCase(p, multi) = "drag"
    /\ dragState' = [isDragging |-> TRUE, startPoint |-> <<p>>,
                     offset |-> [x |-> I(0), y |-> I(0)]]
    /\ isDrawing' = TRUE
    /\ NoCommit
    /\ UNCHANGED <<tool, annotations, color, currentPoints, selectionRect, resizeState,
                   selectedShapeType, editVars, polyVars, lineVars, bezierVars,
                   canvasVars, now, rz, rt, env>>

ClickedAt(p) ==
    annotations[FirstOf({i \in 1..Len(annotations) :
                    ~annotations[i].isSelected /\ isAnnotationClick(p.x, p.y, annotations[i])})]

\* a click that adds to the selection whatever the modifier
ClickSelect_adds(id, multi) ==
    selectAnnotations(annotations, Append(getSelectedIds(annotations), id), FALSE)

ClickSelect(id, multi) ==
    IF multi
    THEN selectAnnotations(annotations, Append(getSelectedIds(annotations), id), FALSE)
    ELSE selectAnnotations(annotations, <<id>>, TRUE)

\* select tool: click or modifier-click on an unselected annotation
DownClick(p, multi) ==
    /\ ~pressed /\ pressed' = TRUE
    /\ tool = "select"
    /\ SelectCase(p, multi) = "click"
    /\ annotations' = ClickSelect(ClickedAt(p).id, multi)
    /\ dragState' = StartAt(p)
    /\ NoCommit
    /\ TextEffect
    /\ UNCHANGED <<tool, color, isDrawing, currentPoints, selectionRect, resizeState,
                   selectedShapeType, editVars, polyVars, lineVars, bezierVars,
                   doubleClickPending, timers, now, rz, rt, env>>

\* select tool: modifier-click on empty space
DownNothing(p) ==
    /\ ~pressed /\ pressed' = TRUE
    /\ tool = "select"
    /\ SelectCase(p, TRUE) = "nothing"
    /\ dragState' = StartAt(p)
    /\ NoCommit
    /\ UNCHANGED <<tool, annotations, color, isDrawing, currentPoints, selectionRect,
                   resizeState, selectedShapeType, editVars, polyVars, lineVars,
                   bezierVars, canvasVars, now, rz, rt, env>>

\* select tool: press on empty space, the start of a marquee
DownMarquee(p) ==
    /\ ~pressed /\ pressed' = TRUE
    /\ tool = "select"
    /\ SelectCase(p, FALSE) = "marquee"
    /\ annotations' =
          IF \E i \in 1..Len(annotations) :
                /\ annotations[i].isSelected
                /\ \/ isAnnotationClick(p.x, p.y, annotations[i])
                   \/ isBoundingBoxClick(p.x, p.y, annotations[i])
          THEN annotations
          ELSE clearSelection(annotations)
    /\ selectionRect' = <<[x |-> p.x, y |-> p.y, width |-> I(0), height |-> I(0)]>>
    /\ isDrawing' = TRUE
    /\ dragState' = StartAt(p)
    /\ NoCommit
    /\ TextEffect
    /\ UNCHANGED <<tool, color, currentPoints, resizeState, selectedShapeType,
                   editVars, polyVars, lineVars, bezierVars, doubleClickPending,
                   timers, now, rz, rt, env>>

\* brush: the stroke starts
DownBrush(p) ==
    /\ ~pressed /\ pressed' = TRUE
    /\ tool = "brush"
    /\ currentPoints' = <<p.x, p.y>>
    /\ isDrawing' = TRUE
    /\ dragState' = StartAt(p)
    /\ NoCommit
    /\ UNCHANGED <<tool, annotations, color, selectionRect, resizeState,
                   selectedShapeType, editVars, polyVars, lineVars, bezierVars,
                   canvasVars, now, rz, rt, env>>

\* shape, polygon or polyline: the first vertex, or a further vertex of a polygon
DownPoly(p) ==
    /\ ~pressed /\ pressed' = TRUE
    /\ tool = "shape"
    /\ ShapeCase(p) = "poly"
    /\ Len(polygonPoints) < MaxPoly
    /\ isDrawingPolygon' = TRUE
    /\ polygonPoints' = (IF ~isDrawingPolygon THEN <<p>> ELSE Append(polygonPoints, p))
    /\ dragState' = StartAt(p)
    /\ NoCommit
    /\ UNCHANGED <<tool, annotations, color, isDrawing, currentPoints, selectionRect,
                   resizeState, selectedShapeType, editVars, lineVars, bezierVars,
                   canvasVars, now, rz, rt, env>>

\* shape, line: the first end, for click-to-click and for drag-and-release
DownLineStart(p) ==
    /\ ~pressed /\ pressed' = TRUE
    /\ tool = "shape"
    /\ ShapeCase(p) = "lineStart"
    /\ isDrawingLine' = TRUE
    /\ linePoints' = <<p>>
    /\ currentPoints' = <<p.x, p.y>>
    /\ isDrawing' = TRUE
    /\ dragState' = StartAt(p)
    /\ NoCommit
    /\ UNCHANGED <<tool, annotations, color, selectionRect, resizeState,
                   selectedShapeType, editVars, polyVars, bezierVars, canvasVars,
                   now, rz, rt, env>>

\* shape, line: the second click completes the line
DownLineEnd(p) ==
    /\ ~pressed /\ pressed' = TRUE
    /\ tool = "shape"
    /\ ShapeCase(p) = "lineEnd"
    /\ Len(annotations) < env.drawn
    /\ annotations' = Append(annotations,
            createShapeAnnotation(Append(linePoints, p), "line", color, now))
    /\ Commit(Append(annotations,
            createShapeAnnotation(Append(linePoints, p), "line", color, now)), "lineEnd")
    /\ isDrawingLine' = FALSE
    /\ linePoints' = <<>>
    /\ isDrawing' = FALSE
    /\ dragState' = StartAt(p)
    /\ TextEffect
    /\ UNCHANGED <<tool, color, currentPoints, selectionRect, resizeState,
                   selectedShapeType, editVars, polyVars, bezierVars,
                   doubleClickPending, timers, now, rz, rt, env>>

\* shape, bezier: a control point; the third one completes the curve
DownBezier(p) ==
    /\ ~pressed /\ pressed' = TRUE
    /\ tool = "shape"
    /\ ShapeCase(p) = "bezier"
    /\ IF isDrawingBezier /\ Len(bezierPoints) >= 2
       THEN /\ Len(annotations) < env.drawn
            /\ annotations' = Append(annotations,
                    createShapeAnnotation(Append(bezierPoints, p), "bezier", color, now))
            /\ Commit(Append(annotations,
                    createShapeAnnotation(Append(bezierPoints, p), "bezier", color, now)),
                    "bezierEnd")
            /\ isDrawingBezier' = FALSE
            /\ bezierPoints' = <<>>
       ELSE /\ isDrawingBezier' = TRUE
            /\ bezierPoints' = (IF ~isDrawingBezier THEN <<p>> ELSE Append(bezierPoints, p))
            /\ NoCommit
            /\ UNCHANGED annotations
    /\ dragState' = StartAt(p)
    /\ TextEffect
    /\ UNCHANGED <<tool, color, isDrawing, currentPoints, selectionRect, resizeState,
                   selectedShapeType, editVars, polyVars, lineVars,
                   doubleClickPending, timers, now, rz, rt, env>>

\* shape, rectangle or ellipse: the first corner
DownBox(p) ==
    /\ ~pressed /\ pressed' = TRUE
    /\ tool = "shape"
    /\ ShapeCase(p) = "box"
    /\ currentPoints' = <<p.x, p.y>>
    /\ isDrawing' = TRUE
    /\ dragState' = StartAt(p)
    /\ NoCommit
    /\ UNCHANGED <<tool, annotations, color, selectionRect, resizeState,
                   selectedShapeType, editVars, polyVars, lineVars, bezierVars,
                   canvasVars, now, rz, rt, env>>

\* text: the first corner of the text box
DownText(p) ==
    /\ ~pressed /\ pressed' = TRUE
    /\ tool = "text"
    /\ selectionRect' = <<[x |-> p.x, y |-> p.y, width |-> I(0), height |-> I(0)]>>
    /\ isDrawing' = TRUE
    /\ dragState' = StartAt(p)
    /\ NoCommit
    /\ UNCHANGED <<tool, annotations, color, currentPoints, resizeState,
                   selectedShapeType, editVars, polyVars, lineVars, bezierVars,
                   canvasVars, now, rz, rt, env>>

\* the annotations left after the eraser at p removed the first one it touches
InEraser(p, a) == isAnnotationInEraserCircle(p.x, p.y, Div(I(eraserSize), I(2)), a)

Touched(p) == {i \in 1..Len(annotations) : InEraser(p, annotations[i])}

WithoutId(anns, id) == SeqFilter(anns, LAMBDA a : a.id # id)

Erased(p) == WithoutId(annotations, annotations[FirstOf(Touched(p))].id)

\* eraser: erasing starts, and removes what is under the pointer
DownErase(p) ==
    /\ ~pressed /\ pressed' = TRUE
    /\ tool = "eraser"
    /\ isDrawing' = TRUE
    /\ IF Touched(p) # {}
       THEN annotations' = Erased(p) /\ Commit(Erased(p), "erase")
       ELSE annotations' = annotations /\ NoCommit
    /\ dragState' = StartAt(p)
    /\ TextEffect
    /\ UNCHANGED <<tool, color, currentPoints, selectionRect, resizeState,
                   selectedShapeType, editVars, polyVars, lineVars, bezierVars,
                   doubleClickPending, timers, now>>

DownEraser(p) == DownErase(p) /\ UNCHANGED <<rz, rt, env>>

\* Stage onDblClick, after the second release; handleDoubleClick ends
\* the polyline flow with the point as the last vertex
DoubleClick(p) ==
    /\ ~pressed
    /\ doubleClickPending' = FALSE
    /\ IF tool = "shape" /\ selectedShapeType = "polyline" /\ isDrawingPolygon
       THEN /\ Len(annotations) < env.drawn
            /\ annotations' = Append(annotations,
                    createShapeAnnotation(Append(polygonPoints, p), selectedShapeType, color, now))
            /\ Commit(Append(annotations,
                    createShapeAnnotation(Append(polygonPoints, p), selectedShapeType, color, now)),
                    "polylineEnd")
            /\ isDrawingPolygon' = FALSE
            /\ polygonPoints' = <<>>
       ELSE /\ NoCommit
            /\ UNCHANGED <<annotations, polyVars>>
    /\ TextEffect
    /\ UNCHANGED <<tool, color, isDrawing, currentPoints, selectionRect, dragState,
                   resizeState, selectedShapeType, editVars, lineVars, bezierVars,
                   timers, now, pressed, rz, rt, env>>

(***************************************************************************)
(*                       POINTER MOVE AND RELEASE                          *)
(* handleMouseMove does nothing to the modelled state unless isDrawing.    *)
(***************************************************************************)
\* every finite position of the collection lies within the modelled range
NumInRange(v) == IsFinite(v) => (AbsInt(v.n) <= MaxCoord * v.d)

AnnInRange(a) ==
    /\ NumInRange(a.x) /\ NumInRange(a.y)
    /\ \A k \in 1..Len(a.points) : NumInRange(a.points[k])

InRange(anns) == \A i \in 1..Len(anns) : AnnInRange(anns[i])

\* eraser held down: remove what is under the pointer
MoveErase(p) ==
    /\ isDrawing /\ tool = "eraser"
    /\ Touched(p) # {}
    /\ annotations' = Erased(p)
    /\ Commit(Erased(p), "erase")
    /\ TextEffect
    /\ UNCHANGED <<tool, color, isDrawing, currentPoints, selectionRect, dragState,
                   resizeState, selectedShapeType, editVars, polyVars, lineVars,
                   bezierVars, doubleClickPending, timers, now, pressed>>

MoveEraser(p) == MoveErase(p) /\ UNCHANGED <<rz, rt, env>>

Resizing ==
    /\ tool = "select" /\ resizeState.isResizing /\ resizeState.startPoint # <<>>
    /\ resizeState.anchorIndex # -1 /\ resizeState.originalAnnotation # <<>>

\* the collection after a move of the resize gesture to p
ReplaceById(anns, id, new) == [i \in 1..Len(anns) |-> IF anns[i].id = id THEN new ELSE anns[i]]

\* a move that resizes the annotation as it stands instead of the snapshot
ResizedTo_current(anns, rs, p) ==
    [i \in 1..Len(anns) |->
        IF anns[i].id = rs.originalAnnotation[1].id
        THEN resizeAnnotation(rs.anchorIndex, anns[i], p.x, p.y) ELSE anns[i]]

ResizedTo(anns, rs, p) ==
    ReplaceById(anns, rs.originalAnnotation[1].id,
                resizeAnnotation(rs.anchorIndex, rs.originalAnnotation[1], p.x, p.y))

MoveResize(p) ==
    /\ isDrawing /\ tool # "eraser"
    /\ Resizing
    /\ annotations' = ResizedTo(annotations, resizeState, p)
    /\ InRange(annotations')
    /\ NoCommit
    /\ TextEffect
    /\ UNCHANGED <<tool, color, isDrawing, currentPoints, selectionRect, dragState,
                   resizeState, selectedShapeType, editVars, polyVars, lineVars,
                   bezierVars, doubleClickPending, timers, now, pressed, rz, rt, env>>

Dragging == tool = "select" /\ dragState.isDragging /\ dragState.startPoint # <<>>

\* a drag that moves by the whole displacement since pointer-down on every move
DragDelta_fromStart(p) ==
    [x |-> Sub(p.x, dragState.startPoint[1].x), y |-> Sub(p.y, dragState.startPoint[1].y)]

DragDelta(p) ==
    [x |-> Sub(Sub(p.x, dragState.startPoint[1].x), dragState.offset.x),
     y |-> Sub(Sub(p.y, dragState.startPoint[1].y), dragState.offset.y)]

DragOffset(p) ==
    [x |-> Sub(p.x, dragState.startPoint[1].x), y |-> Sub(p.y, dragState.startPoint[1].y)]

\* the control-point drag applies while the grabbed annotation is in the collection
DraggingControlPoint ==
    /\ editingAnnotationId # <<>> /\ editingControlPointIndex # -1
    /\ \E i \in 1..Len(annotations) : annotations[i].id = editingAnnotationId[1]

MovedControlPoint(a, d) ==
    LET pointIndex == editingControlPointIndex * 2
    IN  IF /\ \/ a.type = "shape" /\ a.shapeType \in LineShapeTypes
              \/ a.type = "stroke"
           /\ pointIndex < Len(a.points) - 1
        THEN [a EXCEPT !.points =
                [k \in 1..Len(a.points) |->
                    IF k = pointIndex + 1 THEN Add(a.points[k], d.x)
                    ELSE IF k = pointIndex + 2 THEN Add(a.points[k], d.y)
                    ELSE a.points[k]]]
        ELSE a

MoveControlPoint(p) ==
    /\ isDrawing /\ tool # "eraser"
    /\ ~Resizing /\ Dragging /\ DraggingControlPoint
    /\ annotations' = [i \in 1..Len(annotations) |->
                          IF annotations[i].id = editingAnnotationId[1]
                          THEN MovedControlPoint(annotations[i], DragDelta(p))
                          ELSE annotations[i]]
    /\ InRange(annotations')
    /\ dragState' = [dragState EXCEPT !.offset = DragOffset(p)]
    /\ NoCommit
    /\ TextEffect
    /\ UNCHANGED <<tool, color, isDrawing, currentPoints, selectionRect, resizeState,
                   selectedShapeType, editVars, polyVars, lineVars, bezierVars,
                   doubleClickPending, timers, now, pressed, rz, rt, env>>

\* a drag that loses the last point of the points it shifts
ShiftPoints_dropLast(points, d) ==
    [k \in 1..(Len(points) - 2) |-> IF k % 2 = 1 THEN Add(points[k], d.x) ELSE Add(points[k], d.y)]

ShiftPoints(points, d) ==
    [k \in 1..Len(points) |-> IF k % 2 = 1 THEN Add(points[k], d.x) ELSE Add(points[k], d.y)]

Translated(a, d) ==
    CASE a.type = "stroke" -> [a EXCEPT !.points = ShiftPoints(a.points, d)]
      [] a.type \in {"text", "image"} -> [a EXCEPT !.x = Add(a.x, d.x), !.y = Add(a.y, d.y)]
      [] a.type = "shape" ->
            [a EXCEPT !.x = Add(a.x, d.x), !.y = Add(a.y, d.y),
                      !.points = IF a.shapeType \in LineShapeTypes
                                 THEN ShiftPoints(a.points, d) ELSE a.points]
      [] OTHER -> a

\* a drag whose every move saves to the history
MoveDrag_commits(p) ==
    /\ isDrawing /\ tool # "eraser"
    /\ ~Resizing /\ Dragging /\ ~DraggingControlPoint
    /\ annotations' = [i \in 1..Len(annotations) |->
                          IF annotations[i].isSelected
                          THEN Translated(annotations[i], DragDelta(p))
                          ELSE annotations[i]]
    /\ InRange(annotations')
    /\ dragState' = [dragState EXCEPT !.offset = DragOffset(p)]
    /\ Commit(annotations', "moveDrag")
    /\ TextEffect
    /\ UNCHANGED <<tool, color, isDrawing, currentPoints, selectionRect, resizeState,
                   selectedShapeType, editVars, polyVars, lineVars, bezierVars,
                   doubleClickPending, timers, now, pressed, rz, rt, env>>

MoveDrag(p) ==
    /\ isDrawing /\ tool # "eraser"
    /\ ~Resizing /\ Dragging /\ ~DraggingControlPoint
    /\ annotations' = [i \in 1..Len(annotations) |->
                          IF annotations[i].isSelected
                          THEN Translated(annotations[i], DragDelta(p))
                          ELSE annotations[i]]
    /\ InRange(annotations')
    /\ dragState' = [dragState EXCEPT !.offset = DragOffset(p)]
    /\ NoCommit
    /\ TextEffect
    /\ UNCHANGED <<tool, color, isDrawing, currentPoints, selectionRect, resizeState,
                   selectedShapeType, editVars, polyVars, lineVars, bezierVars,
                   doubleClickPending, timers, now, pressed, rz, rt, env>>

MoveBrush(p) ==
    /\ isDrawing /\ tool = "brush"
    /\ Len(currentPoints) < 2 * MaxStroke
    /\ currentPoints' = currentPoints \o <<p.x, p.y>>
    /\ NoCommit
    /\ UNCHANGED <<tool, annotations, color, isDrawing, selectionRect, dragState,
                   resizeState, selectedShapeType, editVars, polyVars, lineVars,
                   bezierVars, canvasVars, now, pressed, rz, rt, env>>

\* rectangle, ellipse, line: the preview's second point follows the pointer
MoveShape(p) ==
    /\ isDrawing /\ tool = "shape"
    /\ selectedShapeType \notin {"polygon", "polyline", "bezier"}
    /\ Len(currentPoints) >= 2
    /\ currentPoints' = <<currentPoints[1], currentPoints[2], p.x, p.y>>
    /\ NoCommit
    /\ UNCHANGED <<tool, annotations, color, isDrawing, selectionRect, dragState,
                   resizeState, selectedShapeType, editVars, polyVars, lineVars,
                   bezierVars, canvasVars, now, pressed, rz, rt, env>>

\* the marquee and the text box follow the pointer
MoveRect(p) ==
    /\ isDrawing /\ tool \in {"select", "text"}
    /\ ~(tool = "select" /\ (Resizing \/ Dragging))
    /\ selectionRect # <<>>
    /\ selectionRect' = <<[selectionRect[1] EXCEPT
                              !.width = Sub(p.x, selectionRect[1].x),
                              !.height = Sub(p.y, selectionRect[1].y)]>>
    /\ NoCommit
    /\ UNCHANGED <<tool, annotations, color, isDrawing, currentPoints, dragState,
                   resizeState, selectedShapeType, editVars, polyVars, lineVars,
                   bezierVars, canvasVars, now, pressed, rz, rt, env>>

\* the branch of handleMouseUp's tool switch
UpBrushCase == tool = "brush" /\ Len(currentPoints) > 0
UpShapeCase ==
    /\ tool = "shape" /\ Len(currentPoints) = 4
    /\ selectedShapeType \notin {"polygon", "polyline", "bezier"}
UpMarqueeCase == tool = "select" /\ selectionRect # <<>>
UpTextCase == tool = "text" /\ selectionRect # <<>>

InMarquee(anns, rect) == IdsOf(SeqFilter(anns, LAMBDA a : isAnnotationInRect(a, rect)))

\* the collection handleMouseUp leaves
UpAnnotations ==
    IF UpBrushCase THEN Append(annotations, NewStroke(currentPoints, color, now))
    ELSE IF UpShapeCase
    THEN Append(annotations, NewDragShape(currentPoints, selectedShapeType, color, now))
    ELSE IF UpMarqueeCase
    THEN selectAnnotations(annotations, InMarquee(annotations, selectionRect[1]), TRUE)
    ELSE IF UpTextCase THEN Append(annotations, NewText(selectionRect[1], color, now))
    ELSE annotations

UpCreates == UpBrushCase \/ UpShapeCase \/ UpTextCase

\* handleMouseUp while isDrawing; the last saveToHistory of the handler decides
handleMouseUp(op) ==
    /\ pressed /\ pressed' = FALSE
    /\ isDrawing
    /\ UpCreates => Len(annotations) < env.drawn
    /\ annotations' = UpAnnotations
    /\ IF UpCreates THEN Commit(UpAnnotations, op)
       ELSE IF resizeState.isResizing \/ dragState.isDragging THEN Commit(annotations, op)
       ELSE NoCommit
    /\ resizeState' = (IF resizeState.isResizing THEN NoResize ELSE resizeState)
    /\ dragState' = [isDragging |-> FALSE, startPoint |-> <<>>,
                     offset |-> IF dragState.isDragging THEN [x |-> I(0), y |-> I(0)]
                                ELSE dragState.offset]
    /\ editingAnnotationId' = <<>>
    /\ editingControlPointIndex' = -1
    /\ isDrawing' = FALSE
    /\ currentPoints' = (IF UpBrushCase \/ UpShapeCase THEN <<>> ELSE currentPoints)
    /\ IF UpShapeCase /\ isDrawingLine
       THEN isDrawingLine' = FALSE /\ linePoints' = <<>>
       ELSE UNCHANGED lineVars
    /\ selectionRect' = (IF UpMarqueeCase \/ UpTextCase THEN <<>> ELSE selectionRect)
    /\ TextEffect
    /\ UNCHANGED <<tool, color, selectedShapeType, polyVars, bezierVars,
                   doubleClickPending, timers, now, rz, rt, env>>

\* release (or leaving the stage) outside a gesture
UpIdle ==
    /\ pressed /\ pressed' = FALSE
    /\ ~isDrawing
    /\ NoCommit
    /\ UNCHANGED <<tool, annotations, color, isDrawing, currentPoints, selectionRect,
                   dragState, resizeState, selectedShapeType, editVars, polyVars,
                   lineVars, bezierVars, canvasVars, now, rz, rt, env>>

UpResize == resizeState.isResizing /\ handleMouseUp("upResize")
UpDrag == ~resizeState.isResizing /\ dragState.isDragging /\ handleMouseUp("upDrag")
UpGesture == ~resizeState.isResizing /\ ~dragState.isDragging
UpBrush == UpGesture /\ UpBrushCase /\ handleMouseUp("upBrush")
UpShape == UpGesture /\ UpShapeCase /\ handleMouseUp("upShape")
UpMarquee == UpGesture /\ UpMarqueeCase /\ handleMouseUp("upMarquee")
UpText == UpGesture /\ UpTextCase /\ handleMouseUp("upText")
UpPlain ==
    /\ UpGesture /\ ~UpBrushCase /\ ~UpShapeCase /\ ~UpMarqueeCase /\ ~UpTextCase
    /\ handleMouseUp("upPlain")

(***************************************************************************)
(*                            TEXT EDITING                                 *)
(***************************************************************************)
WithText(anns, id, newText) ==
    [i \in 1..Len(anns) |->
        IF anns[i].id = id /\ anns[i].type = "text"
        THEN [anns[i] EXCEPT !.text = newText] ELSE anns[i]]

\* Canvas: a double click on a text annotation opens the textarea on it
TextDoubleClick(i) ==
    /\ ~pressed
    /\ i \in 1..Len(annotations) /\ annotations[i].type = "text"
    /\ editingTextId # <<annotations[i].id>>
    /\ editingTextId' = <<annotations[i].id>>
    /\ NoCommit
    /\ UNCHANGED <<tool, annotations, color, isDrawing, currentPoints, selectionRect,
                   dragState, resizeState, selectedShapeType, editVars, polyVars,
                   lineVars, bezierVars, doubleClickPending, timers, now, pressed, rz, rt, env>>

\* the textarea's onChange: handleTextEdit on every change of the text
handleTextEdit(newText) ==
    /\ editingTextId # <<>>
    /\ annotations' = WithText(annotations, editingTextId[1], newText)
    /\ Commit(WithText(annotations, editingTextId[1], newText), "textEdit")
    /\ UNCHANGED <<tool, color, isDrawing, currentPoints, selectionRect, dragState,
                   resizeState, selectedShapeType, editVars, polyVars, lineVars,
                   bezierVars, canvasVars, now, pressed, rz, rt, env>>

\* Ctrl+Enter or blur
handleTextEditSubmit ==
    /\ editingTextId # <<>>
    /\ editingTextId' = <<>>
    /\ NoCommit
    /\ UNCHANGED <<tool, annotations, color, isDrawing, currentPoints, selectionRect,
                   dragState, resizeState, selectedShapeType, editVars, polyVars,
                   lineVars, bezierVars, doubleClickPending, timers, now, pressed, rz, rt, env>>

\* Escape: handleTextEdit with the stored text, when the annotation is there
handleTextEditCancel ==
    /\ editingTextId # <<>>
    /\ editingTextId' = <<>>
    /\ LET found == {i \in 1..Len(annotations) : annotations[i].id = editingTextId[1]}
           first == CHOOSE i \in found : \A j \in found : i <= j
       IN  IF found # {} /\ annotations[first].type = "text"
           THEN /\ annotations' = WithText(annotations, editingTextId[1], annotations[first].text)
                /\ Commit(WithText(annotations, editingTextId[1], annotations[first].text),
                          "textCancel")
           ELSE /\ annotations' = annotations
                /\ NoCommit
    /\ UNCHANGED <<tool, color, isDrawing, currentPoints, selectionRect, dragState,
                   resizeState, selectedShapeType, editVars, polyVars, lineVars,
                   bezierVars, doubleClickPending, timers, now, pressed, rz, rt, env>>

(***************************************************************************)
(*                          THE APPLICATION                                *)
(***************************************************************************)
Next ==
    \/ Tick
    \/ Undo
    \/ Redo
    \/ handleDelete
    \/ handleDuplicate
    \/ \E c \in Colors : handleColorChange(c)
    \/ \E t \in Tools : handleToolChange(t)
    \/ \E st \in ShapeTypes : onShapeTypeChange(st)
    \/ \E p \in Pts : DownVertex(p)
    \/ \E p \in Pts : DownDefer(p)
    \/ TimerFire
    \/ \E p \in Pts : DownControlPoint(p)
    \/ \E p \in Pts : DownAnchor(p)
    \/ \E p \in Pts : DownDrag(p)
    \/ \E p \in Pts, multi \in BOOLEAN : DownClick(p, multi)
    \/ \E p \in Pts : DownNothing(p)
    \/ \E p \in Pts : DownMarquee(p)
    \/ \E p \in Pts : DownBrush(p)
    \/ \E p \in Pts : DownPoly(p)
    \/ \E p \in Pts : DownLineStart(p)
    \/ \E p \in Pts : DownLineEnd(p)
    \/ \E p \in Pts : DownBezier(p)
    \/ \E p \in Pts : DownBox(p)
    \/ \E p \in Pts : DownText(p)
    \/ \E p \in Pts : DownEraser(p)
    \/ \E p \in Pts : DoubleClick(p)
    \/ \E p \in Pts : MoveEraser(p)
    \/ \E p \in Pts : MoveResize(p)
    \/ \E p \in Pts : MoveControlPoint(p)
    \/ \E p \in Pts : MoveDrag(p)
    \/ \E p \in Pts : MoveBrush(p)
    \/ \E p \in Pts : MoveShape(p)
    \/ \E p \in Pts : MoveRect(p)
    \/ UpIdle
    \/ UpResize
    \/ UpDrag
    \/ UpBrush
    \/ UpShape
    \/ UpMarquee
    \/ UpText
    \/ UpPlain
    \/ \E i \in 1..MaxAnn : TextDoubleClick(i)
    \/ \E t \in Texts : handleTextEdit(t)
    \/ handleTextEditSubmit
    \/ handleTextEditCancel

Spec == Init /\ [][Next]_vars

(***************************************************************************)
(*                      THE EDITING ENVIRONMENT                            *)
(* One annotation is drawn (a stroke, a rectangle or a text) and then      *)
(* selected, recoloured, dragged, resized, duplicated, deleted and edited, *)
(* with undo and redo at any moment, gestures included.                    *)
(***************************************************************************)
EditDrawn == 1     \* annotations drawn with the pointer
EditHist == 3      \* length of the history

Pt(x, y) == [x |-> I(x), y |-> I(y)]
DownPts == {Pt(0, 0), Pt(20, 20)}
DrawPts == {Pt(0, 0)}
DrawEnds == {Pt(20, 20)}

InitEdit ==
    /\ InitApp /\ last = NoOp /\ rz = NoRz /\ rt = NoRt
    /\ env = [drawn |-> EditDrawn, hist |-> EditHist]

NextEdit ==
    \/ Undo
    \/ Redo
    \/ handleDelete
    \/ handleDuplicate
    \/ \E c \in Colors \ {"#000000"} : handleColorChange(c)
    \/ \E t \in Tools \ {"eraser"} : handleToolChange(t)
    \/ \E p \in DownPts : DownAnchor(p)
    \/ \E p \in DownPts : DownDrag(p)
    \/ \E p \in DownPts, multi \in BOOLEAN : DownClick(p, multi)
    \/ \E p \in DrawPts : DownBrush(p)
    \/ \E p \in DrawPts : DownBox(p)
    \/ \E p \in DrawPts : DownText(p)
    \/ \E p \in Pts : MoveResize(p)
    \/ \E p \in Pts : MoveDrag(p)
    \/ \E p \in DrawEnds : MoveBrush(p)
    \/ \E p \in DrawEnds : MoveShape(p)
    \/ \E p \in DrawEnds : MoveRect(p)
    \/ UpIdle
    \/ UpResize
    \/ UpDrag
    \/ UpBrush
    \/ UpShape
    \/ UpText
    \/ \E t \in Texts : handleTextEdit(t)
    \/ handleTextEditSubmit
    \/ handleTextEditCancel

SpecEdit == InitEdit /\ [][NextEdit]_vars

(***************************************************************************)
(*                     THE SELECTION ENVIRONMENT                           *)
(* One rectangle is drawn and duplicated; the two are clicked, modifier-   *)
(* clicked, marquee-selected, dragged, resized by every anchor the grid    *)
(* reaches and deleted, with undo and redo at any moment.                  *)
(***************************************************************************)
InitSelect ==
    /\ InitApp /\ last = NoOp /\ rz = NoRz /\ rt = NoRt
    /\ env = [drawn |-> EditDrawn, hist |-> EditHist]

NextSelect ==
    \/ Undo
    \/ Redo
    \/ handleDelete
    \/ handleDuplicate
    \/ \E t \in {"select", "shape"} : handleToolChange(t)
    \/ \E p \in Pts : DownAnchor(p)
    \/ \E p \in Pts : DownDrag(p)
    \/ \E p \in Pts, multi \in BOOLEAN : DownClick(p, multi)
    \/ \E p \in Pts : DownNothing(p)
    \/ \E p \in Pts : DownMarquee(p)
    \/ \E p \in DrawPts : DownBox(p)
    \/ \E p \in Pts : MoveResize(p)
    \/ \E p \in Pts : MoveDrag(p)
    \/ \E p \in DrawEnds : MoveShape(p)
    \/ \E p \in Pts : MoveRect(p)
    \/ UpIdle
    \/ UpResize
    \/ UpDrag
    \/ UpShape
    \/ UpMarquee

SpecSelect == InitSelect /\ [][NextSelect]_vars

(***************************************************************************)
(*                  resizeAnnotation ON ITS OWN                            *)
(* rz holds one annotation as the application creates it, an anchor and a  *)
(* pointer position, then the result of resizeAnnotation, then the result  *)
(* of a second gesture on that result (whose snapshot is, as in            *)
(* handleMouseDown, the JSON copy of the annotation).                      *)
(***************************************************************************)
RzExtents == {<<100, 100>>, <<0, 100>>, <<100, 0>>}
RzPts == {Pt(150, 150), Pt(200, 200), Pt(50, 50)}

RzBox(e) == <<I(0), I(0), I(e[1]), I(e[2])>>

RzAnns ==
    {NewDragShape(RzBox(e), st, "#000000", 0) : e \in RzExtents, st \in {"rectangle", "ellipse"}}
    \cup {createShapeAnnotation(<<Pt(0, 0), Pt(e[1], e[2])>>, "line", "#000000", 0) : e \in RzExtents}
    \cup {createShapeAnnotation(<<Pt(0, 0), Pt(e[1], 0), Pt(e[1], e[2])>>, "polygon", "#000000", 0) :
            e \in RzExtents}
    \cup {NewStroke(RzBox(e), "#000000", 0) : e \in RzExtents}
    \cup {NewText([x |-> I(0), y |-> I(0), width |-> I(100), height |-> I(100)], "#000000", 0)}

InitResize ==
    /\ InitApp /\ last = NoOp /\ rt = NoRt
    /\ env = [drawn |-> EditDrawn, hist |-> EditHist]
    /\ rz \in [phase : {"in"}, orig : RzAnns, anchor : 0..7, p : RzPts,
               res : {<<>>}, anchor2 : {-1}, p2 : {<<>>}, res2 : {<<>>}]

ResizeOnce ==
    /\ rz.phase = "in"
    /\ rz' = [rz EXCEPT !.phase = "one",
                        !.res = <<resizeAnnotation(rz.anchor, rz.orig, rz.p.x, rz.p.y)>>]
    /\ UNCHANGED <<appVars, last, rt, env>>

ResizeAgain(anchorIndex, p) ==
    /\ rz.phase = "one"
    /\ rz' = [rz EXCEPT !.phase = "two", !.anchor2 = anchorIndex, !.p2 = <<p>>,
                        !.res2 = <<resizeAnnotation(anchorIndex, JsonCopy(rz.res[1]), p.x, p.y)>>]
    /\ UNCHANGED <<appVars, last, rt, env>>

NextResize ==
    \/ ResizeOnce
    \/ \E anchorIndex \in 0..7, p \in RzPts : ResizeAgain(anchorIndex, p)

SpecResize == InitResize /\ [][NextResize]_vars

(***************************************************************************)
(*                 N COMMITS, N UNDOS, N REDOS                             *)
(* Strokes and rectangles are drawn from the initial state; from any       *)
(* moment on, undo is pressed once per commit made, then redo as often.    *)
(* rt counts the presses and keeps the history of the moment of the first. *)
(***************************************************************************)
MaxCommits == 3

InitRoundTrip ==
    /\ InitApp /\ last = NoOp /\ rz = NoRz
    /\ rt = [phase |-> "commits", n |-> 0, k |-> 0, h |-> <<>>]
    /\ env = [drawn |-> MaxCommits, hist |-> MaxCommits + 1]

Committing == rt.phase = "commits"

RtToolChange(t) == Committing /\ handleToolChange(t)
RtDownBrush(p) == Committing /\ DownBrush(p)
RtMoveBrush(p) == Committing /\ MoveBrush(p)
RtUpBrush == Committing /\ UpBrush
RtDownBox(p) == Committing /\ DownBox(p)
RtMoveShape(p) == Committing /\ MoveShape(p)
RtUpShape == Committing /\ UpShape

\* the commits made are the entries after the initial one
RtUndo ==
    /\ \/ /\ Committing /\ Len(history) > 1
          /\ rt' = [phase |-> "undo", n |-> Len(history) - 1, k |-> 1, h |-> history]
       \/ /\ rt.phase = "undo" /\ rt.k < rt.n
          /\ rt' = [rt EXCEPT !.k = rt.k + 1]
    /\ UndoKey
    /\ UNCHANGED <<rz, env>>

RtRedo ==
    /\ \/ /\ rt.phase = "undo" /\ rt.k = rt.n
          /\ rt' = [rt EXCEPT !.phase = "redo", !.k = 1]
       \/ /\ rt.phase = "redo" /\ rt.k < rt.n
          /\ rt' = [rt EXCEPT !.k = rt.k + 1]
    /\ RedoKey
    /\ UNCHANGED <<rz, env>>

NextRoundTrip ==
    \/ \E t \in {"brush", "shape"} : RtToolChange(t)
    \/ \E p \in DownPts : RtDownBrush(p)
    \/ \E p \in DrawEnds : RtMoveBrush(p)
    \/ RtUpBrush
    \/ \E p \in DownPts : RtDownBox(p)
    \/ \E p \in DrawEnds : RtMoveShape(p)
    \/ RtUpShape
    \/ RtUndo
    \/ RtRedo

SpecRoundTrip == InitRoundTrip /\ [][NextRoundTrip]_vars

(***************************************************************************)
(*                       PROPERTIES OF RESIZING                            *)
(***************************************************************************)
Box(a) == <<a.x, a.y, a.width, a.height>>
UsesPoints(a) == a.type = "stroke" \/ (a.type = "shape" /\ a.shapeType \in LineShapeTypes)
CoordsX(a) == IF UsesPoints(a) THEN XsOf(a.points) ELSE <<a.x, a.width>>
CoordsY(a) == IF UsesPoints(a) THEN YsOf(a.points) ELSE <<a.y, a.height>>
AllFinite(s) == \A k \in 1..Len(s) : IsFinite(s[k])
EdgesX(b) == {b.x, Add(b.x, b.width)}
EdgesY(b) == {b.y, Add(b.y, b.height)}

\* the sides of the original bounds the anchor leaves in place
KeepsRight(anchorIndex) == anchorIndex \in {0, 6, 7}
KeepsLeft(anchorIndex) == anchorIndex \in {2, 3, 4}
KeepsBottom(anchorIndex) == anchorIndex \in {0, 1, 2}
KeepsTop(anchorIndex) == anchorIndex \in {4, 5, 6}

OppositeStays(orig, anchorIndex, res) ==
    /\ KeepsRight(anchorIndex) =>
         Add(calculateBounds(orig).x, calculateBounds(orig).width) \in EdgesX(calculateBounds(res))
    /\ KeepsLeft(anchorIndex) => calculateBounds(orig).x \in EdgesX(calculateBounds(res))
    /\ KeepsBottom(anchorIndex) =>
         Add(calculateBounds(orig).y, calculateBounds(orig).height) \in EdgesY(calculateBounds(res))
    /\ KeepsTop(anchorIndex) => calculateBounds(orig).y \in EdgesY(calculateBounds(res))

Rect100 == NewDragShape(RzBox(<<100, 100>>), "rectangle", "#000000", 0)

\* C7: the rectangle (0,0,100,100) resized by anchor 4 to (150,150) is
\* (0,0,150,150), and that rectangle resized by anchor 0 to (200,200) is the
\* normalized rectangle (150,150,50,50).
C7_RectangleScenario ==
    (/\ rz.phase = "two" /\ rz.orig = Rect100
     /\ rz.anchor = 4 /\ rz.p = Pt(150, 150)
     /\ rz.anchor2 = 0 /\ rz.p2 = <<Pt(200, 200)>>)
    => /\ Box(rz.res[1]) = <<I(0), I(0), I(150), I(150)>>
       /\ Box(rz.res2[1]) = <<I(150), I(150), I(50), I(50)>>

\* C8: for every annotation kind, anchor and pointer position, the corner or
\* edge of the original bounds opposite the dragged anchor is a corner or edge
\* of the bounds of the resized annotation.
C8_OppositeAnchorFixed ==
    rz.phase \in {"one", "two"} => OppositeStays(rz.orig, rz.anchor, rz.res[1])

\* C10: when the original bounds have width 0 (height 0), every coordinate of
\* the result is finite and the coordinates on that axis are the original ones.
C10_ZeroExtentRateOne ==
    rz.phase \in {"one", "two"} =>
        /\ calculateBounds(rz.orig).width = I(0) =>
              /\ AllFinite(CoordsX(rz.res[1])) /\ AllFinite(CoordsY(rz.res[1]))
              /\ CoordsX(rz.res[1]) = CoordsX(rz.orig)
        /\ calculateBounds(rz.orig).height = I(0) =>
              /\ AllFinite(CoordsX(rz.res[1])) /\ AllFinite(CoordsY(rz.res[1]))
              /\ CoordsY(rz.res[1]) = CoordsY(rz.orig)

(***************************************************************************)
(*                     PROPERTIES OF THE HISTORY                           *)
(***************************************************************************)
\* the step keeps the entries up to the cursor and puts one entry after them
AppendsOne ==
    /\ Len(history') = historyStep + 2
    /\ SubSeq(history', 1, historyStep + 1) = SubSeq(history, 1, historyStep + 1)
    /\ historyStep' = Len(history') - 1

\* C1: a commit at cursor c on history H leaves H[0..c] followed by the new
\* snapshot and the cursor on the new last index, so a commit at a cursor
\* c < len(H)-1 leaves c+2 entries.  Every step that changes the history, or
\* moves the cursor without being an undo or a redo, is a commit.
C1_CommitTruncates ==
    [][(history' # history \/ (historyStep' # historyStep /\ ~UndoKey /\ ~RedoKey))
         => AppendsOne]_vars

\* typing in the textarea of a text whose creation has been undone: a commit
\* at cursor 0 of a history of two entries
C1_Witness ==
    /\ last = "textEdit" /\ editingTextId # <<>>
    /\ Len(history) = 2 /\ historyStep = 1 /\ history[2] = <<>>

\* C2: undo is a no-op at cursor 0 and otherwise moves the cursor down by one
\* and makes the working collection history[cursor]; redo is a no-op at the
\* last index and otherwise moves the cursor up by one and makes the working
\* collection history[cursor]; neither changes the history.
C2_UndoRedoStep ==
    [][/\ UndoKey =>
            /\ history' = history
            /\ IF historyStep = 0
               THEN historyStep' = historyStep /\ annotations' = annotations
               ELSE historyStep' = historyStep - 1 /\ annotations' = history[historyStep' + 1]
       /\ RedoKey =>
            /\ history' = history
            /\ IF historyStep = Len(history) - 1
               THEN historyStep' = historyStep /\ annotations' = annotations
               ELSE historyStep' = historyStep + 1 /\ annotations' = history[historyStep' + 1]
      ]_vars

\* in the middle of a history of three entries, on the entry of the cursor,
\* which differs from both neighbours
C2_Witness ==
    /\ Len(history) = 3 /\ historyStep = 1
    /\ annotations = history[2] /\ history[1] # history[2] /\ history[3] # history[2]

\* C3: after N >= 1 commits from the initial state, N undos and then N redos
\* leave the working collection equal to the snapshot of the last commit, the
\* cursor at N and the history as it was.
C3_UndoRedoRoundTrip ==
    (rt.phase = "redo" /\ rt.k = rt.n) =>
        /\ annotations = rt.h[rt.n + 1]
        /\ historyStep = rt.n
        /\ history = rt.h

C3_Witness ==
    /\ rt.phase = "redo" /\ rt.k = rt.n /\ rt.n = MaxCommits
    /\ Len(annotations) = MaxCommits

\* the completed actions of the claim
CompletedAction ==
    \/ UpBrush \/ UpShape \/ UpDrag \/ UpResize
    \/ handleDelete \/ handleDuplicate
    \/ \E c \in Colors : getSelectedAnnotations(annotations) # <<>> /\ handleColorChange(c)
    \/ \E t \in Texts : handleTextEdit(t)

\* C4: stroke completion, shape completion, drag-end, resize-end, delete,
\* duplicate, color change of a non-empty selection and text-edit commit each
\* append exactly one entry to the history, equal to the working collection
\* right after the action.
C4_OneEntryPerAction ==
    [][CompletedAction => (AppendsOne /\ history'[Len(history')] = annotations')]_vars

\* after the duplication of the one drawn annotation
C4_Witness ==
    /\ last = "duplicate" /\ Len(history) = 3 /\ historyStep = 2
    /\ Len(annotations) = 2 /\ history[3] = annotations /\ history[2] # annotations

(***************************************************************************)
(*               PROPERTIES OF SELECTION AND RESIZE GESTURES               *)
(***************************************************************************)
Editing == {i \in 1..Len(annotations) : annotations[i].isEditing}
Selected == {i \in 1..Len(annotations) : annotations[i].isSelected}

\* C5: at most one annotation has isEditing, and an annotation with isEditing
\* is selected and is the only selected one.
C5_SingleEditing ==
    /\ Cardinality(Editing) <= 1
    /\ \A i \in Editing : Selected = {i}

Boxes(anns) == {anns[i] : i \in {j \in 1..Len(anns) :
                    anns[j].type = "shape" /\ anns[j].shapeType \in {"rectangle", "ellipse"}}}

\* C6: every rectangle and ellipse of the working collection and of every
\* history snapshot has width >= 0 and height >= 0.
C6_NonNegativeExtents ==
    \A a \in Boxes(annotations) \cup UNION {Boxes(history[j]) : j \in 1..Len(history)} :
        Le(I(0), a.width) /\ Le(I(0), a.height)

\* the collection in which the annotation of the snapshot is the resize of the
\* snapshot to p
FromSnapshot(anns, p) ==
    [i \in 1..Len(anns) |->
        IF anns[i].id = resizeState.originalAnnotation[1].id
        THEN resizeAnnotation(resizeState.anchorIndex, resizeState.originalAnnotation[1], p.x, p.y)
        ELSE anns[i]]

\* C9: within a resize gesture the snapshot taken at pointer-down stays, every
\* move to p leaves the annotation equal to resizeAnnotation(anchor, snapshot,
\* p) whatever the moves before, and a second move to p changes nothing.
C9_ResizeFromSnapshot ==
    [][/\ \A p \in Pts : MoveResize(p) =>
            /\ annotations' = FromSnapshot(annotations, p)
            /\ FromSnapshot(annotations', p) = annotations'
       /\ (~resizeState.isResizing /\ resizeState'.isResizing) =>
            \E i \in Selected : resizeState'.originalAnnotation = <<JsonCopy(annotations[i])>>
       /\ (resizeState.isResizing /\ resizeState'.isResizing) => resizeState' = resizeState
      ]_vars

\* in a gesture, after a move, the annotation differs from the snapshot
C9_Witness ==
    /\ resizeState.isResizing
    /\ \E i \in 1..Len(annotations), p \in Pts :
          /\ annotations[i].id = resizeState.originalAnnotation[1].id
          /\ annotations[i] = resizeAnnotation(resizeState.anchorIndex,
                                               resizeState.originalAnnotation[1], p.x, p.y)
          /\ Box(annotations[i]) # Box(resizeState.originalAnnotation[1])

(***************************************************************************)
(*                 PROPERTIES OF UNDO, REDO AND IDENTITY                   *)
(***************************************************************************)
\* C11: after an undo or a redo that moves the cursor, no annotation of the
\* working collection is selected or editing.
C11_UndoRedoClearSelection ==
    [][((UndoKey \/ RedoKey) /\ historyStep' # historyStep)
         => \A i \in 1..Len(annotations') :
               ~annotations'[i].isSelected /\ ~annotations'[i].isEditing]_vars

(***************************************************************************)
(* Two annotations drawn one after the other, with the clock of Date.now() *)
(* advancing or not in between, then selected, dragged, resized, recolored *)
(* and restored from the history.                                          *)
(***************************************************************************)
IdsDrawn == 2      \* annotations drawn with the pointer
IdsHist == 3       \* length of the history

InitIds ==
    /\ InitApp /\ last = NoOp /\ rz = NoRz /\ rt = NoRt
    /\ env = [drawn |-> IdsDrawn, hist |-> IdsHist]

NextIds ==
    \/ Tick
    \/ Undo
    \/ Redo
    \/ \E c \in Colors \ {"#000000"} : handleColorChange(c)
    \/ \E t \in {"select", "shape", "brush"} : handleToolChange(t)
    \/ \E p \in DownPts : DownAnchor(p)
    \/ \E p \in DownPts : DownDrag(p)
    \/ \E p \in DownPts : DownClick(p, FALSE)
    \/ \E p \in DrawPts : DownBrush(p)
    \/ \E p \in DrawPts : DownBox(p)
    \/ \E p \in DrawEnds : MoveResize(p)
    \/ \E p \in DrawEnds : MoveDrag(p)
    \/ \E p \in DrawEnds : MoveBrush(p)
    \/ \E p \in DrawEnds : MoveShape(p)
    \/ UpIdle \/ UpResize \/ UpDrag \/ UpBrush \/ UpShape

SpecIds == InitIds /\ [][NextIds]_vars

IdsAt(anns) == [i \in 1..Len(anns) |-> anns[i].id]
DistinctIds == \A i, j \in 1..Len(annotations) : annotations[i].id = annotations[j].id => i = j

\* the steps that neither create nor remove nor restore an annotation
KeepsAnnotations ==
    \/ UpDrag \/ UpResize \/ UpIdle
    \/ \E p \in Pts : MoveDrag(p) \/ MoveResize(p) \/ MoveControlPoint(p)
    \/ \E p \in Pts : DownAnchor(p) \/ DownDrag(p) \/ DownControlPoint(p)
    \/ \E p \in Pts, multi \in BOOLEAN : DownClick(p, multi)
    \/ \E c \in Colors : handleColorChange(c)
    \/ \E t \in Texts : handleTextEdit(t)

\* C12: the annotations of the working collection have pairwise distinct ids,
\* and drag, resize, point-edit, recolor, text edit and selection leave the
\* id of every annotation as it is (undo and redo restore stored
\* annotations, ids included).
C12_DistinctStableIds ==
    /\ []DistinctIds
    /\ [][KeepsAnnotations => IdsAt(annotations') = IdsAt(annotations)]_vars


(***************************************************************************)
(*                    THE LINE-BASED SHAPES ENVIRONMENT                    *)
(* One line, polygon, polyline or bezier is drawn click by click (a line   *)
(* also by dragging), with the shape type and the tool changed at any      *)
(* moment; the shape is then selected, dragged, resized, edited point by   *)
(* point and duplicated, with undo and redo at any moment.                 *)
(***************************************************************************)
ShapesDrawn == 1   \* annotations drawn with the pointer
ShapesHist == 3    \* length of the history

InitShapes ==
    /\ InitApp /\ last = NoOp /\ rz = NoRz /\ rt = NoRt
    /\ env = [drawn |-> ShapesDrawn, hist |-> ShapesHist]

\* the user starts a shape only while the canvas has room for it
Drawable == Len(annotations) < env.drawn
ShDownPoly(p) == Drawable /\ DownPoly(p)
ShDownLineStart(p) == Drawable /\ DownLineStart(p)
ShDownBezier(p) == Drawable /\ DownBezier(p)

\* and does not undo or redo while placing the points of a shape
Placing == isDrawingPolygon \/ isDrawingLine \/ isDrawingBezier \/ timers # <<>>
ShUndo == ~Placing /\ Undo
ShRedo == ~Placing /\ Redo

\* and keeps to the line-based shape type chosen first
ShShapeTypeChange(st) ==
    /\ selectedShapeType \in {"rectangle", st}
    /\ onShapeTypeChange(st)

\* the top-right anchor of a shape spanning (0,0)-(20,20) and where it is taken
AnchorPts == {Pt(20, 0)}
ResizeEnds == {Pt(40, 0)}

\* where the drag that draws a line ends
DragEnds == {Pt(40, 40)}

NextShapes ==
    \/ ShUndo
    \/ ShRedo
    \/ handleDuplicate
    \/ \E t \in {"select", "shape"} : handleToolChange(t)
    \/ \E st \in LineShapeTypes : ShShapeTypeChange(st)
    \/ \E p \in DownPts : DownVertex(p)
    \/ \E p \in DrawEnds : DownDefer(p)
    \/ TimerFire
    \/ \E p \in DrawEnds : DoubleClick(p)
    \/ \E p \in DownPts : ShDownPoly(p)
    \/ \E p \in DrawPts : ShDownLineStart(p)
    \/ \E p \in DrawEnds : DownLineEnd(p)
    \/ \E p \in DownPts : ShDownBezier(p)
    \/ \E p \in DownPts : DownClick(p, FALSE)
    \/ \E p \in DownPts : DownControlPoint(p)
    \/ \E p \in DownPts : DownDrag(p)
    \/ \E p \in AnchorPts : DownAnchor(p)
    \/ \E p \in DragEnds : MoveShape(p)
    \/ \E p \in DrawEnds : MoveControlPoint(p)
    \/ \E p \in DownPts : MoveDrag(p)
    \/ \E p \in ResizeEnds : MoveResize(p)
    \/ UpIdle
    \/ UpShape
    \/ UpPlain
    \/ UpDrag
    \/ UpResize

SpecShapes == InitShapes /\ [][NextShapes]_vars


\* the number of point values a line-based shape may hold
PointCountOk(a) ==
    (a.type = "shape" /\ a.shapeType \in LineShapeTypes) =>
        /\ Len(a.points) % 2 = 0
        /\ Len(a.points) >= 4
        /\ a.shapeType = "bezier" => Len(a.points) = 6

AllPointCountsOk(anns) == \A i \in 1..Len(anns) : PointCountOk(anns[i])

\* the k-th least index of S
KthOf(S, k) == CHOOSE i \in S : Cardinality({j \in S : j < i}) = k - 1

\* the number of point values of each annotation, by position
PointCounts(anns) == [i \in 1..Len(anns) |-> Len(anns[i].points)]

\* drag, resize and point edit
Reshaping ==
    \/ \E p \in DownPts : MoveDrag(p)
    \/ \E p \in ResizeEnds : MoveResize(p)
    \/ \E p \in DrawEnds : MoveControlPoint(p)

\* drag, resize, point edit, duplicate, undo and redo
Transforming == Undo \/ Redo \/ handleDuplicate \/ Reshaping

\* the clones follow the annotations, one a selected annotation and in their order
ClonesKeepPointCounts(sel) ==
    /\ Len(annotations') = Len(annotations) + Cardinality(sel)
    /\ \A i \in 1..Len(annotations) :
          Len(annotations'[i].points) = Len(annotations[i].points)
    /\ \A k \in 1..Cardinality(sel) :
          Len(annotations'[Len(annotations) + k].points)
             = Len(annotations[KthOf(sel, k)].points)

\* a reshaped annotation holds as many point values as before, a clone as many
\* as its original, a restored annotation as many as when it was recorded
KeepsPointCounts ==
    /\ Reshaping => PointCounts(annotations') = PointCounts(annotations)
    /\ handleDuplicate =>
          ClonesKeepPointCounts({i \in 1..Len(annotations) : annotations[i].isSelected})
    /\ (Undo \/ Redo) =>
          \/ PointCounts(annotations') = PointCounts(annotations)
          \/ \E h \in 1..Len(history) :
                PointCounts(annotations') = PointCounts(history[h])

\* C13: every line shape of the collection and of the history holds an even
\* number >= 4 of point values, every bezier exactly 6, every polygon and
\* polyline an even number >= 4; drag, resize, point edit, duplicate, undo and
\* redo keep the number of point values of every annotation.
C13_PointCounts ==
    /\ [](AllPointCountsOk(annotations)
            /\ \A h \in 1..Len(history) : AllPointCountsOk(history[h]))
    /\ [][Transforming => KeepsPointCounts]_vars

\* a polygon or polyline of three points or more, resized, the resize committed
C13_Witness ==
    /\ last = "upResize"
    /\ historyStep = 2
    /\ Len(history) = 3
    /\ Len(annotations) = 1
    /\ annotations[1].shapeType \in {"polygon", "polyline"}
    /\ Len(annotations[1].points) >= 6
    /\ history[2][1].points # annotations[1].points
    /\ history[3] = annotations


(***************************************************************************)
(*                     calculateBounds ON ITS OWN                          *)
(* rz holds one annotation of any kind: a stroke or a line-based shape of  *)
(* zero to three points, or a box with stored position and extents; then   *)
(* the result of calculateBounds.                                          *)
(***************************************************************************)
BdMaxPoints == 3   \* points of a stroke or line-based shape
BdCoords == {I(-20), I(0), Q(41, 2)}

BdPointSeqs == UNION {[1..(2 * n) -> BdCoords] : n \in 0..BdMaxPoints}

BdAnns ==
    {[BaseAnn EXCEPT !.type = "stroke", !.points = p] : p \in BdPointSeqs}
    \cup {[BaseAnn EXCEPT !.type = "shape", !.shapeType = st, !.points = p] :
            st \in LineShapeTypes, p \in BdPointSeqs}
    \cup {[BaseAnn EXCEPT !.type = k[1], !.shapeType = k[2],
                          !.x = x, !.y = y, !.width = w, !.height = h] :
            k \in {<<"shape", "rectangle">>, <<"shape", "ellipse">>,
                   <<"text", "none">>, <<"image", "none">>},
            x \in BdCoords, y \in BdCoords, w \in BdCoords, h \in BdCoords}

InitBounds ==
    /\ InitApp /\ last = NoOp /\ rt = NoRt
    /\ env = [drawn |-> EditDrawn, hist |-> EditHist]
    /\ rz \in [phase : {"in"}, ann : BdAnns, out : {<<>>}]

BoundsOnce ==
    /\ rz.phase = "in"
    /\ rz' = [rz EXCEPT !.phase = "out", !.out = <<calculateBounds(rz.ann)>>]
    /\ UNCHANGED <<appVars, last, rt, env>>

NextBounds == BoundsOnce

SpecBounds == InitBounds /\ [][NextBounds]_vars

\* lo is the least and hi the greatest of the coordinates s
Spans(s, lo, hi) ==
    /\ \E i \in 1..Len(s) : s[i] = lo
    /\ \E i \in 1..Len(s) : s[i] = hi
    /\ \A i \in 1..Len(s) : Le(lo, s[i]) /\ Le(s[i], hi)

BoundsAsStated(a, b) ==
    IF UsesPoints(a)
    THEN IF a.points = <<>> THEN b = ZeroBounds
         ELSE /\ Spans(XsOf(a.points), b.x, Add(b.x, b.width))
              /\ Spans(YsOf(a.points), b.y, Add(b.y, b.height))
    ELSE /\ b.x = a.x /\ b.y = a.y
         /\ b.width = a.width /\ b.height = a.height

\* C14: calculateBounds returns the min/max box of the points of a stroke or
\* a line-based shape, the zero rectangle for empty points, and the stored
\* x, y, width, height of a rectangle, an ellipse, a text and an image.
C14_BoundsOfPoints == rz.phase = "out" => BoundsAsStated(rz.ann, rz.out[1])

\* three points out of order, with a negative and a fractional coordinate
C14_Witness ==
    /\ rz.phase = "out"
    /\ rz.ann.type = "shape" /\ rz.ann.shapeType = "polyline"
    /\ rz.ann.points = <<Q(41, 2), I(0), I(-20), I(0), I(0), Q(41, 2)>>
    /\ rz.out[1] = [x |-> I(-20), y |-> I(0), width |-> Q(81, 2), height |-> Q(41, 2)]


(***************************************************************************)
(*                   isPointInAnnotation ON ITS OWN                        *)
(* rz holds one stroke, rectangle, line, polygon or polyline as the        *)
(* application creates it and a pointer position; then the result of       *)
(* isPointInAnnotation.                                                    *)
(***************************************************************************)
HitMaxPoints == 3  \* points of a stroke, polygon or polyline
HitCorners == {Pt(0, 0), Pt(40, 0), Pt(40, 40)}
HitPts == {Pt(x, y) : x \in {-5, 20, 35, 60}, y \in {-5, 0, 20, 60}}

HitPointSeqs(least) ==
    UNION {[1..n -> HitCorners] : n \in least..HitMaxPoints}

HitAnns ==
    {NewStroke(FlatPoints(ps), "#000000", 0) : ps \in HitPointSeqs(1)}
    \cup {createShapeAnnotation(ps, "polyline", "#000000", 0) : ps \in HitPointSeqs(2)}
    \cup {createShapeAnnotation(ps, "polygon", "#000000", 0) : ps \in HitPointSeqs(3)}
    \cup {createShapeAnnotation(ps, "line", "#000000", 0) : ps \in [1..2 -> HitCorners]}
    \cup {NewDragShape(FlatPoints(ps), "rectangle", "#000000", 0) : ps \in [1..2 -> HitCorners]}

InitHit ==
    /\ InitApp /\ last = NoOp /\ rt = NoRt
    /\ env = [drawn |-> EditDrawn, hist |-> EditHist]
    /\ rz \in [phase : {"in"}, ann : HitAnns, p : HitPts, hit : {FALSE}]

HitOnce ==
    /\ rz.phase = "in"
    /\ rz' = [rz EXCEPT !.phase = "out",
                        !.hit = isPointInAnnotation(rz.p.x, rz.p.y, rz.ann)]
    /\ UNCHANGED <<appVars, last, rt, env>>

NextHit == HitOnce

SpecHit == InitHit /\ [][NextHit]_vars

\* the segments and edges an annotation is drawn with, as <<x1, y1, x2, y2>>
Joined(p) == {<<p[2 * i - 1], p[2 * i], p[2 * i + 1], p[2 * i + 2]>> : i \in 1..(Len(p) \div 2 - 1)}
Closing(p) == {<<p[Len(p) - 1], p[Len(p)], p[1], p[2]>>}
BoxEdges(l, t, r, b) == {<<l, t, r, t>>, <<l, b, r, b>>, <<l, t, l, b>>, <<r, t, r, b>>}

DrawnSegments(a) ==
    CASE a.type = "stroke" ->
            IF Len(a.points) = 2 THEN Closing(a.points) ELSE Joined(a.points)
      [] a.shapeType = "rectangle" ->
            BoxEdges(a.x, a.y, Add(a.x, a.width), Add(a.y, a.height))
      [] a.shapeType = "polygon" -> Joined(a.points) \cup Closing(a.points)
      [] OTHER -> Joined(a.points)

\* the square of the distance from (x, y) to the segment s
Clamped(t) == IF Lt(t, I(0)) THEN I(0) ELSE IF Lt(I(1), t) THEN I(1) ELSE t
AlongSegment(x, y, s, lenSq) ==
    IF lenSq = I(0) THEN I(0)
    ELSE Clamped(Div(Add(Mul(Sub(x, s[1]), Sub(s[3], s[1])),
                         Mul(Sub(y, s[2]), Sub(s[4], s[2]))), lenSq))
DistanceAt(x, y, s, t) ==
    Dist2(x, y, Add(s[1], Mul(t, Sub(s[3], s[1]))), Add(s[2], Mul(t, Sub(s[4], s[2]))))
SegmentDistance2(x, y, s) ==
    DistanceAt(x, y, s, AlongSegment(x, y, s, Add(Sq(Sub(s[3], s[1])), Sq(Sub(s[4], s[2])))))

NearDrawn(x, y, a) ==
    \E s \in DrawnSegments(a) : Lt(SegmentDistance2(x, y, s), Sq(I(hitThreshold)))
FarFromDrawn(x, y, a) ==
    \A s \in DrawnSegments(a) : Lt(Sq(I(hitThreshold)), SegmentDistance2(x, y, s))

\* C15: a point nearer than the 10 px threshold to a segment or edge of a
\* stroke, rectangle, line, polygon or polyline is a hit, and a point farther
\* than the threshold from all of them is not.
C15_HitWithinThreshold ==
    rz.phase = "out" =>
        /\ NearDrawn(rz.p.x, rz.p.y, rz.ann) => rz.hit
        /\ FarFromDrawn(rz.p.x, rz.p.y, rz.ann) => ~rz.hit


(***************************************************************************)
(*                      THE POLYGON ENVIRONMENT                            *)
(* The polygon shape is chosen and its vertices are placed at (0,0),       *)
(* (100,0), (100,100) and at (9,12), which is 15 px from (0,0); undo and   *)
(* redo at any moment.                                                     *)
(***************************************************************************)
PolyDrawn == 1     \* annotations drawn with the pointer
PolyHist == 2      \* length of the history
PolyPts == {Pt(0, 0), Pt(100, 0), Pt(100, 100), Pt(9, 12)}

InitPolygon ==
    /\ InitApp /\ last = NoOp /\ rz = NoRz /\ rt = NoRt
    /\ env = [drawn |-> PolyDrawn, hist |-> PolyHist]

NextPolygon ==
    \/ Undo
    \/ Redo
    \/ handleToolChange("shape")
    \/ onShapeTypeChange("polygon")
    \/ \E p \in PolyPts : DownPoly(p)
    \/ \E p \in PolyPts : DownVertex(p)
    \/ UpIdle

SpecPolygon == InitPolygon /\ [][NextPolygon]_vars

\* a polygon is being accumulated and p is within 15 px of its vertex 0
ClickOnVertex0(p) ==
    /\ tool = "shape" /\ isDrawingPolygon /\ selectedShapeType = "polygon"
    /\ polygonPoints # <<>>
    /\ SqrtLe(Dist2(p.x, p.y, polygonPoints[1].x, polygonPoints[1].y), I(vertexThreshold))

\* one polygon of exactly the accumulated points is appended and saved, and
\* the accumulation ends
ClosesPolygon ==
    /\ Len(annotations') = Len(annotations) + 1
    /\ SubSeq(annotations', 1, Len(annotations)) = annotations
    /\ annotations'[Len(annotations')].type = "shape"
    /\ annotations'[Len(annotations')].shapeType = "polygon"
    /\ annotations'[Len(annotations')].points = FlatPoints(polygonPoints)
    /\ Len(history') = historyStep + 2
    /\ history'[Len(history')] = annotations'
    /\ ~isDrawingPolygon'
    /\ polygonPoints' = <<>>

\* C16: with three or more accumulated vertices a click within 15 px of
\* vertex 0 commits exactly one polygon of exactly the accumulated points, in
\* click order, and ends the accumulation; with fewer it commits nothing.
C16_PolygonClosure ==
    [][\A p \in PolyPts :
          (ClickOnVertex0(p) /\ (DownVertex(p) \/ DownPoly(p)))
             => IF Len(polygonPoints) >= 3 THEN ClosesPolygon
                ELSE UNCHANGED <<annotations, history, historyStep>>]_vars

\* clicks at (0,0), (100,0), (100,100), then at (9,12): a polygon of 3 vertices
C16_Witness ==
    /\ last = "polygonClose"
    /\ Len(annotations) = 1
    /\ annotations[1].shapeType = "polygon"
    /\ annotations[1].points = <<I(0), I(0), I(100), I(0), I(100), I(100)>>
    /\ history[Len(history)] = annotations
    /\ ~isDrawingPolygon /\ polygonPoints = <<>>


(***************************************************************************)
(*                       THE ERASER ENVIRONMENT                            *)
(* Up to two annotations are drawn from (40,40) to (60,60), strokes and    *)
(* rectangles, in the same or in different milliseconds; the eraser is     *)
(* pressed, moved and released at (50,50) and at (0,0); undo and redo at   *)
(* any moment.                                                             *)
(***************************************************************************)
EraseDrawn == 2    \* annotations drawn with the pointer
EraseHist == 4     \* length of the history
EraseFrom == {Pt(40, 40)}
EraseTo == {Pt(60, 60)}
ErasePts == {Pt(50, 50), Pt(0, 0)}

InitErase ==
    /\ InitApp /\ last = NoOp /\ rz = NoRz /\ rt = NoRt
    /\ env = [drawn |-> EraseDrawn, hist |-> EraseHist]

NextErase ==
    \/ Tick
    \/ Undo
    \/ Redo
    \/ \E t \in {"brush", "shape", "eraser"} : handleToolChange(t)
    \/ \E p \in EraseFrom : DownBrush(p)
    \/ \E p \in EraseFrom : DownBox(p)
    \/ \E p \in EraseTo : MoveBrush(p)
    \/ \E p \in EraseTo : MoveShape(p)
    \/ \E p \in ErasePts : DownEraser(p)
    \/ \E p \in ErasePts : MoveEraser(p)
    \/ UpBrush
    \/ UpShape
    \/ UpPlain

SpecErase == InitErase /\ [][NextErase]_vars

\* the collection without its i-th annotation
RemoveAt(anns, i) == SubSeq(anns, 1, i - 1) \o SubSeq(anns, i + 1, Len(anns))

\* the eraser at p removes the first annotation it touches and saves the
\* collection once, or touches nothing and changes nothing
ErasesFirst(p) ==
    IF Touched(p) = {}
    THEN UNCHANGED <<annotations, history, historyStep>>
    ELSE /\ annotations' = RemoveAt(annotations, FirstOf(Touched(p)))
         /\ Len(history') = historyStep + 2
         /\ SubSeq(history', 1, historyStep + 1) = SubSeq(history, 1, historyStep + 1)
         /\ history'[Len(history')] = annotations'

\* C17: a pointer-down and each pointer-move of the eraser, the button held,
\* removes at most one annotation, the first in collection order that the
\* eraser circle (radius 20) intersects, and appends one history entry when it
\* removes one; it changes neither the collection nor the history otherwise.
C17_EraserRemovesFirst ==
    [][\A p \in ErasePts :
          /\ DownEraser(p) => ErasesFirst(p)
          /\ MoveEraser(p) => (pressed /\ ErasesFirst(p))]_vars


(***************************************************************************)
(*                  THE DEGENERATE-INPUT ENVIRONMENT                       *)
(* One annotation is drawn with the brush or as a rectangle, an ellipse, a *)
(* line or a polygon, the pointer pressed, moved and released at (0,0) and *)
(* at (20,20), a release without a move and a move back to the start       *)
(* included; undo and redo at any moment.                                  *)
(***************************************************************************)
DegDrawn == 1      \* annotations drawn with the pointer
DegHist == 2       \* length of the history

InitDegenerate ==
    /\ InitApp /\ last = NoOp /\ rz = NoRz /\ rt = NoRt
    /\ env = [drawn |-> DegDrawn, hist |-> DegHist]

NextDegenerate ==
    \/ Undo
    \/ Redo
    \/ \E t \in {"brush", "shape"} : handleToolChange(t)
    \/ \E st \in {"rectangle", "ellipse", "line", "polygon"} : onShapeTypeChange(st)
    \/ \E p \in DownPts : DownBrush(p)
    \/ \E p \in DownPts : DownBox(p)
    \/ \E p \in DownPts : DownLineStart(p)
    \/ \E p \in DownPts : DownLineEnd(p)
    \/ \E p \in DownPts : DownPoly(p)
    \/ \E p \in DownPts : DownVertex(p)
    \/ \E p \in DownPts : MoveBrush(p)
    \/ \E p \in DownPts : MoveShape(p)
    \/ UpIdle
    \/ UpBrush
    \/ UpShape
    \/ UpPlain

SpecDegenerate == InitDegenerate /\ [][NextDegenerate]_vars

\* a stroke of a single position, a shape of no extent, a line whose ends
\* coincide, a polygon of fewer than three vertices
SamePoint(p) == \A k \in 1..Len(p) : p[k] = (IF k % 2 = 1 THEN p[1] ELSE p[2])

Degenerate(a) ==
    CASE a.type = "stroke" -> Len(a.points) < 4 \/ SamePoint(a.points)
      [] a.type = "shape" /\ a.shapeType \in {"rectangle", "ellipse"} ->
            a.width = I(0) /\ a.height = I(0)
      [] a.type = "shape" /\ a.shapeType = "line" -> Len(a.points) < 4 \/ SamePoint(a.points)
      [] a.type = "shape" /\ a.shapeType = "polygon" -> Len(a.points) < 6
      [] OTHER -> FALSE

NoDegenerate(anns) == \A i \in 1..Len(anns) : ~Degenerate(anns[i])

\* C18: no degenerate annotation is committed: neither the collection nor any
\* history entry holds a zero-length stroke, a zero-size rectangle, ellipse
\* or line, or a polygon of fewer than three vertices.
C18_NoDegenerateCommitted ==
    /\ NoDegenerate(annotations)
    /\ \A h \in 1..Len(history) : NoDegenerate(history[h])


\* the bounds b moved by (dx, dy)
MovedBounds(b, dx, dy) == [b EXCEPT !.x = Add(b.x, I(dx)), !.y = Add(b.y, I(dy))]

\* c is a clone of a: a new id, not selected, not editing, its bounds those of a
\* moved by (+20, +20)
CloneOf(c, a) ==
    /\ \A j \in 1..Len(annotations) : c.id # annotations[j].id
    /\ ~c.isSelected /\ ~c.isEditing
    /\ c.type = a.type
    /\ calculateBounds(c) = MovedBounds(calculateBounds(a), 20, 20)

ClonesSelected(sel) ==
    /\ Len(annotations') = Len(annotations) + Len(sel)
    /\ SubSeq(annotations', 1, Len(annotations)) = annotations
    /\ \A i \in 1..Len(sel) : CloneOf(annotations'[Len(annotations) + i], sel[i])

\* C19: duplicate appends, for each selected annotation of every kind, one
\* clone with a fresh id, isSelected = isEditing = false and the original's
\* bounds moved by exactly (+20, +20), and leaves the originals unchanged.
C19_DuplicateTranslates ==
    [][handleDuplicate => ClonesSelected(getSelectedAnnotations(annotations))]_vars


(***************************************************************************)
(*                       THE DELETE ENVIRONMENT                            *)
(* Two rectangles are drawn, clicked and modifier-clicked, and the         *)
(* selection is deleted; undo and redo at any moment.                      *)
(***************************************************************************)
DelDrawn == 2      \* annotations drawn with the pointer
DelHist == 4       \* length of the history

InitDelete ==
    /\ InitApp /\ last = NoOp /\ rz = NoRz /\ rt = NoRt
    /\ env = [drawn |-> DelDrawn, hist |-> DelHist]

NextDelete ==
    \/ Tick
    \/ Undo
    \/ Redo
    \/ handleDelete
    \/ \E t \in {"select", "shape"} : handleToolChange(t)
    \/ \E p \in DownPts : DownBox(p)
    \/ \E p \in Pts : MoveShape(p)
    \/ \E p \in Pts, multi \in BOOLEAN : DownClick(p, multi)
    \/ UpShape
    \/ UpPlain
    \/ UpIdle

SpecDelete == InitDelete /\ [][NextDelete]_vars

\* anns without its selected annotations, the others unchanged and in order
KeepsUnselected(anns, left, kept) ==
    /\ Len(left) = Cardinality(kept)
    /\ \A k \in 1..Len(left) : left[k] = anns[KthOf(kept, k)]

\* C20: delete removes exactly the selected annotations, keeps every other
\* annotation unchanged and in the same relative order, and leaves no
\* annotation selected.
C20_DeleteSelected ==
    [][handleDelete =>
          /\ KeepsUnselected(annotations, annotations',
                             {i \in 1..Len(annotations) : ~annotations[i].isSelected})
          /\ \A k \in 1..Len(annotations') : ~annotations'[k].isSelected]_vars

\* one of two rectangles was selected and deleted, the other one kept
C20_Witness ==
    /\ last = "delete"
    /\ historyStep = 3
    /\ Len(history[3]) = 2
    /\ Len(annotations) = 1
    /\ history[4] = annotations

(***************************************************************************)
(*                    PROPERTIES OF THE SNAPSHOTS                          *)
(***************************************************************************)
\* entry i of the history is found unchanged after the step
StaysAt(i) == i <= Len(history') /\ history'[i] = history[i]

\* entry i lies after the cursor and the step is a commit, which truncates
TruncatedAt(i) == i > historyStep + 1 /\ Len(history') = historyStep + 2

\* C21: once pushed, a snapshot never changes: after any operation every
\* entry of the history is still there with the contents it had, or it lay
\* after the cursor and was dropped by the truncation of a commit.
C21_SnapshotsImmutable ==
    [][\A i \in 1..Len(history) : StaysAt(i) \/ TruncatedAt(i)]_vars

\* in the middle of a drag: the working collection has left the snapshot of
\* the cursor
C21_Witness ==
    /\ dragState.isDragging
    /\ Len(history) = 2 /\ historyStep = 1
    /\ Len(annotations) = 1 /\ Len(history[2]) = 1
    /\ annotations[1].id = history[2][1].id
    /\ calculateBounds(annotations[1]) # calculateBounds(history[2][1])

(***************************************************************************)
(*                      THE KEYBOARD ENVIRONMENT                           *)
(* One rectangle is drawn and selected; Delete and Duplicate are pressed   *)
(* on the toolbar, and keys are pressed at any moment.                     *)
(***************************************************************************)
KeysDrawn == 1     \* annotations drawn with the pointer
KeysHist == 4      \* length of the history

InitKeys ==
    /\ InitApp /\ last = NoOp /\ rz = NoRz /\ rt = NoRt
    /\ env = [drawn |-> KeysDrawn, hist |-> KeysHist]

NextKeys ==
    \/ \E e \in KeyEvents : handleKeyDown(e)
    \/ handleDelete
    \/ handleDuplicate
    \/ \E t \in {"select", "shape"} : handleToolChange(t)
    \/ \E p \in DrawPts : DownBox(p)
    \/ \E p \in DrawEnds : MoveShape(p)
    \/ \E p \in DownPts, multi \in BOOLEAN : DownClick(p, multi)
    \/ UpShape
    \/ UpPlain
    \/ UpIdle

SpecKeys == InitKeys /\ [][NextKeys]_vars

\* what delete() does to the collection and to the history
DeleteCommand ==
    /\ annotations' = SeqFilter(annotations, NotSelected)
    /\ AppendsOne
    /\ history'[Len(history')] = annotations'

\* what duplicate() does to the collection and to the history
DuplicateCommand ==
    /\ Len(annotations') = Len(annotations) + Len(getSelectedAnnotations(annotations))
    /\ SubSeq(annotations', 1, Len(annotations)) = annotations
    /\ AppendsOne
    /\ history'[Len(history')] = annotations'

\* C22: with annotations selected, a keyDown of Delete has the effect of
\* delete() and a keyDown of Ctrl/Cmd+D the effect of duplicate(), on the
\* collection and on the history.
C22_KeysDeleteDuplicate ==
    [][/\ (getSelectedAnnotations(annotations) # <<>>
             /\ \E e \in KeyEvents : e.key = "Delete" /\ ~e.ctrlKey /\ handleKeyDown(e))
          => DeleteCommand
       /\ (getSelectedAnnotations(annotations) # <<>>
             /\ \E e \in KeyEvents : e.key = "d" /\ e.ctrlKey /\ handleKeyDown(e))
          => DuplicateCommand]_vars

(***************************************************************************)
(*                     PROPERTIES OF THE GESTURES                          *)
(***************************************************************************)
\* C23: between the pointer-down and the pointer-up of a body drag, a resize
\* or a control-point edit of the select tool, a pointer move leaves the
\* history and the cursor as they are; it changes the working collection only.
C23_MovesDoNotCommit ==
    [][Reshaping => (history' = history /\ historyStep' = historyStep)]_vars

\* in the middle of a control-point edit the working collection has a point
\* that the snapshot of the cursor has elsewhere
C23_Witness ==
    /\ pressed /\ dragState.isDragging /\ editingControlPointIndex # -1
    /\ Len(annotations) = 1 /\ Len(history[historyStep + 1]) = 1
    /\ annotations[1].id = history[historyStep + 1][1].id
    /\ annotations[1].points # history[historyStep + 1][1].points

(***************************************************************************)
(*                    THE ERASER GESTURE ENVIRONMENT                       *)
(* Two strokes are drawn apart, at different times; the eraser goes down   *)
(* and is moved with the button held.  rt.n counts the entries that the    *)
(* eraser gesture has appended since its pointer-down.                     *)
(***************************************************************************)
GsDrawn == 2       \* annotations drawn with the pointer
GsHist == 5        \* length of the history
GsFrom == {Pt(0, 0), Pt(40, 40)}
GsTo == {Pt(0, 20), Pt(40, 60)}
GsPts == {Pt(0, 10), Pt(40, 50)}

InitGesture ==
    /\ InitApp /\ last = NoOp /\ rz = NoRz /\ rt = NoRt
    /\ env = [drawn |-> GsDrawn, hist |-> GsHist]

GsDownEraser(p) ==
    /\ DownErase(p)
    /\ rt' = [phase |-> "gesture", k |-> 0, n |-> Len(history') - Len(history)]
    /\ UNCHANGED <<rz, env>>

GsMoveEraser(p) ==
    /\ MoveErase(p)
    /\ rt' = [rt EXCEPT !.n = rt.n + Len(history') - Len(history)]
    /\ UNCHANGED <<rz, env>>

NextGesture ==
    \/ Tick
    \/ \E t \in {"brush", "eraser"} : handleToolChange(t)
    \/ \E p \in GsFrom : DownBrush(p)
    \/ \E p \in GsTo : MoveBrush(p)
    \/ UpBrush
    \/ \E p \in GsPts : GsDownEraser(p)
    \/ \E p \in GsPts : GsMoveEraser(p)
    \/ UpPlain

SpecGesture == InitGesture /\ [][NextGesture]_vars

\* C24: a gesture, from its pointer-down to the matching pointer-up, appends
\* at most one entry to the history (stated for the gestures of the eraser;
\* the other tools commit in handleMouseUp only).
C24_OneEntryPerGesture == rt.phase = "gesture" => rt.n <= 1

(***************************************************************************)
(*                   THE ACCUMULATIONS ENVIRONMENT                         *)
(* Polygons, polylines, lines, beziers and rectangles are begun with the   *)
(* shape tool and a marquee is opened with the select tool, while the tool *)
(* and the shape type are switched and keys are pressed between the        *)
(* pointer events; the deferred clicks of the polyline fire at any moment. *)
(***************************************************************************)
FlowDrawn == 1     \* annotations drawn with the pointer
FlowHist == 2      \* length of the history
FlowPts == {Pt(0, 0), Pt(40, 40)}
FlowKeys == {e \in KeyEvents : e.key = "Escape" /\ ~e.ctrlKey /\ ~e.shiftKey}

InitFlows ==
    /\ InitApp /\ last = NoOp /\ rz = NoRz /\ rt = NoRt
    /\ env = [drawn |-> FlowDrawn, hist |-> FlowHist]

NextFlows ==
    \/ \E t \in {"select", "shape"} : handleToolChange(t)
    \/ \E st \in LineShapeTypes \cup {"rectangle"} : onShapeTypeChange(st)
    \/ \E e \in FlowKeys : handleKeyDown(e)
    \/ \E p \in FlowPts : DownPoly(p)
    \/ \E p \in FlowPts : DownVertex(p)
    \/ \E p \in FlowPts : DownDefer(p)
    \/ TimerFire
    \/ \E p \in FlowPts : DownLineStart(p)
    \/ \E p \in FlowPts : DownLineEnd(p)
    \/ \E p \in FlowPts : DownBezier(p)
    \/ \E p \in DrawPts : DownBox(p)
    \/ \E p \in DrawPts : DownMarquee(p)
    \/ \E p \in DrawEnds : MoveShape(p)
    \/ \E p \in DrawEnds : MoveRect(p)
    \/ UpIdle
    \/ UpShape
    \/ UpMarquee
    \/ UpPlain

SpecFlows == InitFlows /\ [][NextFlows]_vars

\* the gestures and accumulations in progress
ActiveGestures ==
    {g \in {"polygon", "line", "bezier", "drag", "resize", "marquee"} :
        \/ g = "polygon" /\ isDrawingPolygon
        \/ g = "line" /\ isDrawingLine
        \/ g = "bezier" /\ isDrawingBezier
        \/ g = "drag" /\ dragState.isDragging
        \/ g = "resize" /\ resizeState.isResizing
        \/ g = "marquee" /\ selectionRect # <<>>}

\* C25: at every reachable state at most one of isDrawingPolygon,
\* isDrawingLine, isDrawingBezier, dragState.isDragging,
\* resizeState.isResizing and an open marquee (selectionRect not null) is
\* active.
C25_OneActiveGesture == Cardinality(ActiveGestures) <= 1

\* a marquee is open with the select tool, after the switch to it has ended a
\* polyline accumulation
C25_Witness ==
    /\ last = "toolChange" /\ tool = "select" /\ pressed
    /\ ActiveGestures = {"marquee"}

\* a switch of the tool or of the shape type
Switching ==
    \/ \E t \in Tools : handleToolChange(t)
    \/ \E st \in ShapeTypes : onShapeTypeChange(st)

\* the x and y of the points of pts, one after the other
Coordinates(pts) ==
    [k \in 1..(2 * Len(pts)) |-> IF k % 2 = 1 THEN pts[(k + 1) \div 2].x ELSE pts[k \div 2].y]

\* the step adds one polyline made of pts, and one history entry
CommitsPolyline(pts) ==
    /\ Len(annotations') = Len(annotations) + 1
    /\ SubSeq(annotations', 1, Len(annotations)) = annotations
    /\ annotations'[Len(annotations')].type = "shape"
    /\ annotations'[Len(annotations')].shapeType = "polyline"
    /\ annotations'[Len(annotations')].points = Coordinates(pts)
    /\ AppendsOne
    /\ history'[Len(history')] = annotations'

\* C26: a switch of the tool or of the shape type during a polygon
\* accumulation adds no annotation and no history entry; during a polyline
\* accumulation of two points or more it commits exactly one polyline made of
\* exactly the accumulated points, with exactly one history entry.
C26_SwitchEndsAccumulation ==
    [][Switching =>
          /\ (isDrawingPolygon /\ selectedShapeType = "polygon") =>
                (annotations' = annotations /\ history' = history
                    /\ historyStep' = historyStep)
          /\ (isDrawingPolygon /\ selectedShapeType = "polyline"
                /\ Len(polygonPoints) >= 2) => CommitsPolyline(polygonPoints)]_vars

\* the switch of the shape type has committed a polyline of three points
C26_Witness ==
    /\ last = "shapeTypeChange" /\ ~isDrawingPolygon /\ polygonPoints = <<>>
    /\ Len(annotations) = 1 /\ annotations[1].shapeType = "polyline"
    /\ Len(annotations[1].points) = 6
    /\ historyStep = 1 /\ history[2] = annotations

\* no accumulation flag is set and no accumulated point is kept
NoPartialShape ==
    /\ ~isDrawingPolygon /\ ~isDrawingLine /\ ~isDrawingBezier
    /\ polygonPoints = <<>> /\ linePoints = <<>> /\ bezierPoints = <<>>

\* the step delivers a pointer-down
PointerDown == ~pressed /\ pressed'

\* C27: after a switch of the tool or of the shape type no partial shape
\* survives (the accumulation flags are false and the point lists empty), and
\* it stays so until the next pointer-down, also when a deferred polyline
\* click is pending at the time of the switch.
C27_NoPartialAfterSwitch ==
    [][/\ Switching => NoPartialShape'
       /\ (NoPartialShape /\ ~PointerDown) => NoPartialShape']_vars

\* C28: Escape pressed during a polygon, polyline, line or bezier
\* accumulation ends it: afterwards no accumulation flag is set and the
\* accumulated point lists are empty.
C28_EscapeEndsAccumulation ==
    [][((isDrawingPolygon \/ isDrawingLine \/ isDrawingBezier)
          /\ \E e \in KeyEvents : e.key = "Escape" /\ handleKeyDown(e))
         => NoPartialShape']_vars

(***************************************************************************)
(*                    THE DOUBLE-CLICK ENVIRONMENT                         *)
(* A polyline is begun and clicked on.  A double click is two presses at   *)
(* one position followed by the dblclick event there; the timeouts of the  *)
(* deferred presses expire at any moment, before or after the events that  *)
(* follow them.  rt keeps the position of the last press and the number of *)
(* points accumulated before it.                                           *)
(***************************************************************************)
DcDrawn == 1       \* annotations drawn with the pointer
DcHist == 2        \* length of the history
DcTimers == 2      \* pending timeouts

InitDoubleClick ==
    /\ InitApp /\ last = NoOp /\ rz = NoRz /\ rt = NoRt
    /\ env = [drawn |-> DcDrawn, hist |-> DcHist, timers |-> DcTimers]

\* the shape tool and the polyline are chosen before the first press
DcToolChange == rt.phase = "off" /\ ~isDrawingPolygon /\ handleToolChange("shape")
DcShapeTypeChange == rt.phase = "off" /\ ~isDrawingPolygon /\ onShapeTypeChange("polyline")
DcDownPoly(p) == rt.phase = "off" /\ selectedShapeType = "polyline" /\ DownPoly(p)

\* a press during the accumulation, once the earlier presses are settled
DcFirstPress(p) ==
    /\ rt.phase \in {"off", "press1"}
    /\ timers = <<>>
    /\ DeferClick(p) \/ VertexClick(p)
    /\ rt' = [phase |-> "press1", at |-> p, n |-> Len(polygonPoints)]
    /\ UNCHANGED <<rz, env>>

\* the second press of a double click, at the position of the first
DcSecondPress ==
    /\ rt.phase = "press1"
    /\ DeferClick(rt.at) \/ VertexClick(rt.at)
    /\ rt' = [rt EXCEPT !.phase = "press2"]
    /\ UNCHANGED <<rz, env>>

\* the dblclick event that follows the release of the second press
DcDoubleClick == rt.phase = "press2" /\ isDrawingPolygon /\ DoubleClick(rt.at)

NextDoubleClick ==
    \/ DcToolChange
    \/ DcShapeTypeChange
    \/ \E p \in FlowPts : DcDownPoly(p)
    \/ \E p \in Pts : DcFirstPress(p)
    \/ DcSecondPress
    \/ UpIdle
    \/ TimerFire
    \/ DcDoubleClick

SpecDoubleClick == InitDoubleClick /\ [][NextDoubleClick]_vars

\* C29: a double click during a polyline accumulation with accumulated points
\* P commits exactly one polyline whose points are P followed exactly once
\* by the position of the double click, and ends the accumulation, whenever
\* the timeouts of its two presses expire.
C29_DoubleClickCommits ==
    [][DcDoubleClick =>
          /\ CommitsPolyline(Append(SubSeq(polygonPoints, 1, rt.n), rt.at))
          /\ ~isDrawingPolygon' /\ polygonPoints' = <<>>]_vars

(***************************************************************************)
(*                       THE UPLOAD ENVIRONMENT                            *)
(* An image is uploaded while strokes are drawn, undone and redone; the    *)
(* read and the decode complete at any moment after the upload.            *)
(***************************************************************************)
UpDrawn == 2       \* annotations drawn with the pointer
UpHist == 3        \* length of the history

InitUpload ==
    /\ InitApp /\ last = NoOp /\ rz = NoRz /\ rt = NoRt
    /\ env = [drawn |-> UpDrawn, hist |-> UpHist]

NextUpload ==
    \/ Tick
    \/ Undo
    \/ Redo
    \/ handleImageUpload
    \/ \E img \in ImageSizes : ImageLoaded(img)
    \/ \E p \in DownPts : DownBrush(p)
    \/ \E p \in DrawEnds : MoveBrush(p)
    \/ UpBrush

SpecUpload == InitUpload /\ [][NextUpload]_vars

\* C30: the completion of an image upload inserts exactly one image
\* annotation into the collection as it is at that time: every annotation
\* of the collection and every history entry up to the cursor, those made
\* since the start of the upload included, is still there afterwards.
C30_UploadKeepsWork ==
    [][(\E img \in ImageSizes : ImageLoaded(img)) =>
          /\ Len(annotations') = Len(annotations) + 1
          /\ SubSeq(annotations', 1, Len(annotations)) = annotations
          /\ annotations'[Len(annotations')].type = "image"
          /\ \A i \in 1..(historyStep + 1) :
                i <= Len(history') /\ history'[i] = history[i]]_vars
(***************************************************************************)
(*                   THE POINTER-DOWN ENVIRONMENT                          *)
(* Lines and rectangles spanning (0,0)-(20,20) or (0,0)-(40,40) are drawn  *)
(* one after the other (their ids differ), then clicked,                   *)
(* modifier-clicked and marquee-selected; every pointer-down of the select *)
(* tool is tried at the corners and at the centre of their bounding box,   *)
(* where vertices, anchors and the body overlap, and the gesture it starts *)
(* is carried out.                                                         *)
(***************************************************************************)
PrDrawn == 2       \* annotations drawn with the pointer
PrHist == 3        \* length of the history
PrPts == Pts \cup {Pt(40, 0)}
PrEnds == {Pt(20, 20), Pt(40, 40)}
PrMoves == {Pt(20, 20)}

InitPriority ==
    /\ InitApp /\ last = NoOp /\ rz = NoRz /\ rt = NoRt
    /\ env = [drawn |-> PrDrawn, hist |-> PrHist]

\* the user draws while the canvas has room and selects afterwards
PrDownLineStart(p) == Drawable /\ DownLineStart(p)
PrDownBox(p) == Drawable /\ DownBox(p)

\* and completes a shape a millisecond or more after the one before
LaterThanDrawn == \A i \in 1..Len(annotations) : annotations[i].id.t # now
PrDownLineEnd(p) == LaterThanDrawn /\ DownLineEnd(p)
PrUpShape == LaterThanDrawn /\ UpShape

NextPriority ==
    \/ Tick
    \/ \E t \in {"select", "shape"} : handleToolChange(t)
    \/ \E st \in {"line", "rectangle"} : onShapeTypeChange(st)
    \/ \E p \in DrawPts : PrDownLineStart(p)
    \/ \E p \in PrEnds : PrDownLineEnd(p)
    \/ \E p \in DrawPts : PrDownBox(p)
    \/ \E p \in PrEnds : MoveShape(p)
    \/ \E p \in PrPts : DownControlPoint(p)
    \/ \E p \in PrPts : DownAnchor(p)
    \/ \E p \in PrPts : DownDrag(p)
    \/ \E p \in PrPts, multi \in BOOLEAN : DownClick(p, multi)
    \/ \E p \in PrPts : DownNothing(p)
    \/ \E p \in PrPts : DownMarquee(p)
    \/ \E p \in PrMoves : MoveControlPoint(p)
    \/ \E p \in PrMoves : MoveDrag(p)
    \/ \E p \in PrMoves : MoveResize(p)
    \/ \E p \in PrEnds : MoveRect(p)
    \/ UpIdle
    \/ PrUpShape
    \/ UpDrag
    \/ UpResize
    \/ UpMarquee
    \/ UpPlain

SpecPriority == InitPriority /\ [][NextPriority]_vars
\* a pointer-down of the select tool at p, whatever it hits
SelectDown(p) ==
    \/ DownControlPoint(p) \/ DownAnchor(p) \/ DownDrag(p)
    \/ \E multi \in BOOLEAN : DownClick(p, multi)
    \/ DownNothing(p) \/ DownMarquee(p)

\* exactly one annotation is selected and it is in edit mode
OneEditing ==
    /\ Len(getSelectedAnnotations(annotations)) = 1
    /\ getSelectedAnnotations(annotations)[1].isEditing

\* what the pointer at p is over, on the single selected annotation
OnControlPoint(p) == isControlPointClick(p.x, p.y, getSelectedAnnotations(annotations)[1])
OnAnchor(p) == getHoveredAnchorIndex(p.x, p.y, getSelectedAnnotations(annotations)[1]) # -1
OnBody(p) == isBoundingBoxClick(p.x, p.y, getSelectedAnnotations(annotations)[1])

\* the gesture the step has started
StartsPointEdit ==
    /\ editingAnnotationId' = <<getSelectedAnnotations(annotations)[1].id>>
    /\ editingControlPointIndex' # -1
    /\ dragState'.isDragging /\ ~resizeState'.isResizing
StartsResize ==
    /\ resizeState'.isResizing /\ ~dragState'.isDragging
    /\ editingAnnotationId' = <<>> /\ editingControlPointIndex' = -1
StartsDrag ==
    /\ dragState'.isDragging /\ ~resizeState'.isResizing
    /\ editingAnnotationId' = <<>> /\ editingControlPointIndex' = -1

\* C31: a pointer-down of the select tool with exactly one annotation selected
\* and in edit mode starts a point-edit when it hits a control point (also
\* when it hits an anchor or the body), otherwise a resize when it hits an
\* anchor (also when it hits the body), otherwise a drag when it hits the
\* body of the selected annotation; resizeState.isResizing and
\* dragState.isDragging are never both true.
C31_DownPriority ==
    [][/\ ~(resizeState'.isResizing /\ dragState'.isDragging)
       /\ \A p \in PrPts :
            (tool = "select" /\ OneEditing /\ SelectDown(p)) =>
                IF OnControlPoint(p) THEN StartsPointEdit
                ELSE IF OnAnchor(p) THEN StartsResize
                ELSE IF OnBody(p) THEN StartsDrag
                ELSE ~dragState'.isDragging /\ ~resizeState'.isResizing]_vars

\* a point-edit has just started on a vertex of the selected line that lies
\* under an anchor and inside the bounding box
C31_Witness ==
    /\ pressed /\ tool = "select" /\ OneEditing
    /\ DraggingControlPoint /\ dragState.isDragging /\ ~resizeState.isResizing
    /\ dragState.offset = [x |-> I(0), y |-> I(0)]
    /\ dragState.startPoint # <<>>
    /\ OnControlPoint(dragState.startPoint[1])
    /\ OnAnchor(dragState.startPoint[1])
    /\ OnBody(dragState.startPoint[1])
\* a pointer-down of the select tool at p without Ctrl/Cmd
PlainDown(p) ==
    \/ DownControlPoint(p) \/ DownAnchor(p) \/ DownDrag(p)
    \/ DownClick(p, FALSE) \/ DownMarquee(p)

\* the annotations the pointer at p hits, and the selected ones it is over
HitsAt(p) == {i \in 1..Len(annotations) : isAnnotationClick(p.x, p.y, annotations[i])}
OverSelected(p) ==
    \E i \in 1..Len(annotations) :
        /\ annotations[i].isSelected
        /\ \/ isAnnotationClick(p.x, p.y, annotations[i])
           \/ isBoundingBoxClick(p.x, p.y, annotations[i])
SelectedAfter == {i \in 1..Len(annotations') : annotations'[i].isSelected}

\* C32 as stated: a plain pointer-down of the select tool that hits an
\* annotation makes that annotation the only selected one; one that hits no
\* annotation and is not over a selected annotation leaves none selected.
C32_PlainClickSelects ==
    [][\A p \in PrPts :
        (tool = "select" /\ PlainDown(p)) =>
            /\ HitsAt(p) # {} =>
                    \E i \in HitsAt(p) : SelectedAfter = {i}
            /\ (HitsAt(p) = {} /\ ~OverSelected(p)) => SelectedAfter = {}]_vars

\* the pointer at p is on a control point or an anchor of the single selected
\* annotation, or inside the bounding box of a selected annotation
OnSelection(p) ==
    \/ Len(getSelectedAnnotations(annotations)) = 1 /\ OnControlPoint(p)
    \/ OneEditing /\ OnAnchor(p)
    \/ \E i \in 1..Len(annotations) :
            annotations[i].isSelected /\ isBoundingBoxClick(p.x, p.y, annotations[i])

UnselectedHitsAt(p) == {i \in HitsAt(p) : ~annotations[i].isSelected}

\* C32 as amended: a plain pointer-down that is not on a control point, an
\* anchor or the bounding box of the selection selects the first unselected
\* annotation it hits, with every annotation carrying the same id, and
\* unselects the others; if it hits no unselected annotation and is not over
\* a selected one, no annotation is left selected.  On the selection it
\* leaves the selection as it is.
C32_PlainClickOffSelection ==
    [][\A p \in PrPts :
        (tool = "select" /\ PlainDown(p)) =>
            IF OnSelection(p)
            THEN \A i \in 1..Len(annotations) :
                    annotations'[i].isSelected = annotations[i].isSelected
            ELSE IF UnselectedHitsAt(p) # {}
            THEN \A i \in 1..Len(annotations) :
                    annotations'[i].isSelected =
                        (annotations[i].id = annotations[KthOf(UnselectedHitsAt(p), 1)].id)
            ELSE ~OverSelected(p) => SelectedAfter = {}]_vars

\* a plain click has just made the annotation under the pointer the only
\* selected one of two
C32_Witness ==
    /\ pressed /\ tool = "select" /\ ~isDrawing /\ ~dragState.isDragging
    /\ dragState.startPoint # <<>>
    /\ Len(annotations) = 2 /\ OneEditing
    /\ annotations[1].id # annotations[2].id
    /\ isAnnotationClick(dragState.startPoint[1].x, dragState.startPoint[1].y,
                         getSelectedAnnotations(annotations)[1])
\* a pointer-down of the select tool at p with Ctrl/Cmd held
ModifierDown(p) ==
    \/ DownControlPoint(p) \/ DownAnchor(p) \/ DownDrag(p)
    \/ DownClick(p, TRUE) \/ DownNothing(p)

SelectionKept ==
    \A i \in 1..Len(annotations) : annotations'[i].isSelected = annotations[i].isSelected

\* the step toggles the membership of annotation i and of no other
Toggles(i) ==
    /\ annotations'[i].isSelected = ~annotations[i].isSelected
    /\ \A j \in 1..Len(annotations) \ {i} :
            annotations'[j].isSelected = annotations[j].isSelected

\* C33: a Ctrl/Cmd pointer-down on an annotation adds it to the selection
\* when it is unselected and removes it when it is selected, and changes the
\* isSelected of no other annotation; on empty canvas it leaves the
\* selection unchanged.
C33_ModifierClickToggles ==
    [][\A p \in PrPts :
        (tool = "select" /\ ModifierDown(p)) =>
            IF HitsAt(p) # {} THEN \E i \in HitsAt(p) : Toggles(i)
            ELSE ~OverSelected(p) => SelectionKept]_vars
(***************************************************************************)
(*                      THE MARQUEE ENVIRONMENT                            *)
(* One-point strokes at (0,0) and (40,40) and a rectangle spanning         *)
(* (0,0)-(40,40) are drawn; a marquee is opened at the centre, dragged to  *)
(* any corner, in any order, and released.                                 *)
(***************************************************************************)
MqDrawn == 2       \* annotations drawn with the pointer
MqHist == 3        \* length of the history
MqBrush == {Pt(0, 0), Pt(40, 40)}
MqFrom == {Pt(20, 20)}
MqTo == {Pt(0, 0), Pt(40, 0), Pt(0, 40), Pt(40, 40)}

InitMarquee ==
    /\ InitApp /\ last = NoOp /\ rz = NoRz /\ rt = NoRt
    /\ env = [drawn |-> MqDrawn, hist |-> MqHist]

MqDownBrush(p) == Drawable /\ DownBrush(p)
MqDownBox(p) == Drawable /\ DownBox(p)

NextMarquee ==
    \/ Tick
    \/ \E t \in {"select", "brush", "shape"} : handleToolChange(t)
    \/ \E p \in MqBrush : MqDownBrush(p)
    \/ UpBrush
    \/ \E p \in DrawPts : MqDownBox(p)
    \/ \E p \in PrEnds \ DrawEnds : MoveShape(p)
    \/ UpShape
    \/ \E p \in MqFrom : DownMarquee(p)
    \/ \E p \in MqTo : MoveRect(p)
    \/ UpMarquee

SpecMarquee == InitMarquee /\ [][NextMarquee]_vars

\* the normalized marquee: its least and greatest coordinates
MarqueeLeft(r) == IF Lt(r.width, I(0)) THEN Add(r.x, r.width) ELSE r.x
MarqueeRight(r) == IF Lt(r.width, I(0)) THEN r.x ELSE Add(r.x, r.width)
MarqueeTop(r) == IF Lt(r.height, I(0)) THEN Add(r.y, r.height) ELSE r.y
MarqueeBottom(r) == IF Lt(r.height, I(0)) THEN r.y ELSE Add(r.y, r.height)

InsideMarquee(px, py, r) ==
    /\ Le(MarqueeLeft(r), px) /\ Le(px, MarqueeRight(r))
    /\ Le(MarqueeTop(r), py) /\ Le(py, MarqueeBottom(r))

\* containedInRect as stated: a defining point of a stroke, the origin of a
\* shape, a text or an image lies inside the normalized marquee
ContainedInRect(a, r) ==
    IF a.type = "stroke"
    THEN \E k \in 1..(Len(a.points) \div 2) :
            InsideMarquee(a.points[2 * k - 1], a.points[2 * k], r)
    ELSE InsideMarquee(a.x, a.y, r)

\* C34: when the marquee is released the selected annotations are exactly
\* those for which containedInRect holds against the normalized marquee,
\* whatever the direction of the drag; the others end up unselected.
C34_MarqueeSelectsContained ==
    [][UpMarquee =>
        \A i \in 1..Len(annotations) :
            annotations'[i].isSelected = ContainedInRect(annotations[i], selectionRect[1])]_vars
\* every x-coordinate (y-coordinate) and the width (height) of res are orig's
SameAcross(orig, res) ==
    /\ CoordsX(res) = CoordsX(orig)
    /\ res.x = orig.x /\ res.width = orig.width
    /\ calculateBounds(res).x = calculateBounds(orig).x
    /\ calculateBounds(res).width = calculateBounds(orig).width
SameAlong(orig, res) ==
    /\ CoordsY(res) = CoordsY(orig)
    /\ res.y = orig.y /\ res.height = orig.height
    /\ calculateBounds(res).y = calculateBounds(orig).y
    /\ calculateBounds(res).height = calculateBounds(orig).height

OneAxis(anchorIndex, orig, res) ==
    /\ anchorIndex \in {1, 5} => SameAcross(orig, res)
    /\ anchorIndex \in {3, 7} => SameAlong(orig, res)

\* the anchor can be taken with the pointer: getHoveredAnchorIndex compares a
\* distance to its centre, which no pointer meets when the centre is NaN
CanGrab(a, anchorIndex) ==
    /\ IsFinite(AnchorX(anchorIndex, calculateBounds(a), Div(I(anchorSize), I(2))))
    /\ IsFinite(AnchorY(anchorIndex, calculateBounds(a), Div(I(anchorSize), I(2))))

\* C35: a resize by the edge anchors 1 and 5 leaves every x-coordinate and
\* the width as they were, a resize by the edge anchors 3 and 7 every
\* y-coordinate and the height, for every annotation kind and pointer
\* position, on an annotation as drawn and on one resized before.
C35_EdgeAnchorsOneAxis ==
    /\ rz.phase \in {"one", "two"} => OneAxis(rz.anchor, rz.orig, rz.res[1])
    /\ (rz.phase = "two" /\ CanGrab(rz.res[1], rz.anchor2)) =>
            OneAxis(rz.anchor2, JsonCopy(rz.res[1]), rz.res2[1])

\* a stroke that a corner anchor has resized is resized by the top edge
\* anchor, and its points have moved
C35_Witness ==
    /\ rz.phase = "two" /\ rz.orig.type = "stroke" /\ rz.anchor = 4
    /\ rz.res[1] # rz.orig
    /\ rz.anchor2 = 1 /\ CanGrab(rz.res[1], rz.anchor2)
    /\ CoordsY(rz.res2[1]) # CoordsY(rz.res[1])
    /\ AllFinite(CoordsY(rz.res2[1]))
\* C36: history is never empty, its first entry is the empty collection and
\* historyStep is an index into it; canUndo holds exactly when historyStep > 0
\* and canRedo exactly when historyStep < history.length - 1.
C36_HistoryWellFormed ==
    /\ Len(history) >= 1
    /\ history[1] = <<>>
    /\ 0 <= historyStep /\ historyStep <= Len(history) - 1
    /\ canUndo <=> historyStep > 0
    /\ canRedo <=> historyStep < Len(history) - 1

\* an image has been inserted after a stroke and the insertion undone: the
\* cursor is inside the history, with an entry on either side
C36_Witness ==
    /\ last = "imageLoaded" /\ Len(history) = 3 /\ historyStep = 1
    /\ canUndo /\ canRedo
    /\ annotations = history[2] /\ Len(annotations) = 1
(***************************************************************************)
(*                    THE IMAGE ENVIRONMENT                                *)
(* An image is inserted at (100,100) and a rectangle is drawn at (0,0);    *)
(* either is selected and resized by its top-left anchor, with undo and    *)
(* redo between the gestures.                                              *)
(***************************************************************************)
ImDrawn == 2       \* annotations on the canvas
ImHist == 3        \* length of the history
ImPts == {Pt(0, 0), Pt(100, 100)}

InitImage ==
    /\ InitApp /\ last = NoOp /\ rz = NoRz /\ rt = NoRt
    /\ env = [drawn |-> ImDrawn, hist |-> ImHist]

ImUndo == ~pressed /\ Undo
ImRedo == ~pressed /\ Redo

NextImage ==
    \/ ImUndo
    \/ ImRedo
    \/ handleImageUpload
    \/ \E img \in ImageSizes : ImageLoaded(img)
    \/ \E t \in {"select", "shape"} : handleToolChange(t)
    \/ \E p \in DrawPts : MqDownBox(p)
    \/ \E p \in DrawEnds : MoveShape(p)
    \/ UpShape
    \/ \E p \in ImPts : DownClick(p, FALSE)
    \/ \E p \in ImPts : DownAnchor(p)
    \/ \E p \in Pts : MoveResize(p)
    \/ UpIdle
    \/ UpResize

SpecImage == InitImage /\ [][NextImage]_vars

\* the fields of an annotation that are not its geometry
Attributes(a) ==
    <<a.id, a.type, a.shapeType, a.color, a.strokeWidth, a.text, a.fontSize,
      a.image, a.isSelected, a.isEditing, Len(a.points)>>

\* the step keeps the attributes of the annotation being resized and every
\* other annotation
KeepsAllButGeometry ==
    /\ Len(annotations') = Len(annotations)
    /\ \A i \in 1..Len(annotations) :
            IF annotations[i].id = resizeState.originalAnnotation[1].id
            THEN Attributes(annotations'[i]) = Attributes(annotations[i])
            ELSE annotations'[i] = annotations[i]

\* C37: every pointer-move of a resize gesture changes only the geometry of
\* the annotation being resized: its id, type, shapeType, color, strokeWidth,
\* text, fontSize, image reference, isSelected, isEditing and number of
\* points stay as they were, every other annotation is unchanged, and so is
\* the snapshot taken at pointer-down.
C37_ResizeKeepsAttributes ==
    [][(\E p \in Pts : MoveResize(p)) =>
            (KeepsAllButGeometry /\ resizeState' = resizeState)]_vars
(***************************************************************************)
(*                      THE DRAG ENVIRONMENT                               *)
(* Strokes, rectangles and lines spanning (0,0)-(40,40) are drawn,         *)
(* selected alone or together and dragged by their body, or a line by one  *)
(* of its end points, along any path of the grid, with undo and redo       *)
(* between the gestures.                                                   *)
(***************************************************************************)
DgDrawn == 2       \* annotations drawn with the pointer
DgHist == 4        \* length of the history
DgEnds == {Pt(40, 40)}
DgFrom == {Pt(20, 20), Pt(40, 40)}

InitDrag ==
    /\ InitApp /\ last = NoOp /\ rz = NoRz /\ rt = NoRt
    /\ env = [drawn |-> DgDrawn, hist |-> DgHist]

NextDrag ==
    \/ Tick
    \/ ImUndo
    \/ ImRedo
    \/ \E t \in {"select", "brush", "shape"} : handleToolChange(t)
    \/ \E st \in {"line", "rectangle"} : onShapeTypeChange(st)
    \/ \E p \in DrawPts : MqDownBrush(p)
    \/ \E p \in DgEnds : MoveBrush(p)
    \/ UpBrush
    \/ \E p \in DrawPts : MqDownBox(p)
    \/ \E p \in DrawPts : PrDownLineStart(p)
    \/ \E p \in DgEnds : MoveShape(p)
    \/ UpShape
    \/ \E p \in DgFrom, multi \in BOOLEAN : DownClick(p, multi)
    \/ UpIdle
    \/ \E p \in DgFrom : DownDrag(p)
    \/ \E p \in Pts : MoveDrag(p)
    \/ \E p \in DgFrom : DownControlPoint(p)
    \/ \E p \in Pts : MoveControlPoint(p)
    \/ UpDrag

SpecDrag == InitDrag /\ [][NextDrag]_vars
\* the collection as it was committed before the running gesture
BeforeGesture == history[historyStep + 1]

\* the displacement of the pointer from the pointer-down of the running gesture to p
Displacement(p) ==
    [x |-> Sub(p.x, dragState.startPoint[1].x), y |-> Sub(p.y, dragState.startPoint[1].y)]

SameButFlags(a, b) == [a EXCEPT !.isSelected = FALSE, !.isEditing = FALSE]
                        = [b EXCEPT !.isSelected = FALSE, !.isEditing = FALSE]

\* annotation a is annotation b with its defining geometry translated by d
TranslatedBy(b, a, d) ==
    /\ a.id = b.id /\ a.type = b.type /\ a.shapeType = b.shapeType /\ a.color = b.color
    /\ a.width = b.width /\ a.height = b.height
    /\ Len(a.points) = Len(b.points)
    /\ calculateBounds(a).width = calculateBounds(b).width
    /\ calculateBounds(a).height = calculateBounds(b).height
    /\ calculateBounds(a).x = Add(calculateBounds(b).x, d.x)
    /\ calculateBounds(a).y = Add(calculateBounds(b).y, d.y)
    /\ UsesPoints(b) =>
            \A k \in 1..Len(b.points) :
                a.points[k] = Add(b.points[k], IF k % 2 = 1 THEN d.x ELSE d.y)
    /\ b.type \in {"shape", "text", "image"} =>
            a.x = Add(b.x, d.x) /\ a.y = Add(b.y, d.y)

\* C38: after every pointer-move of a body drag the selected annotations are
\* the annotations of before the gesture translated by the displacement of the
\* pointer since pointer-down, whatever moves came before, with width, height
\* and point count unchanged; the unselected annotations are unchanged; the
\* pointer-up that ends the drag changes no geometry.
C38_DragTranslates ==
    [][/\ \A p \in Pts :
            MoveDrag(p) =>
                /\ Len(BeforeGesture) = Len(annotations)
                /\ Len(annotations') = Len(annotations)
                /\ \A i \in 1..Len(annotations) :
                        IF annotations[i].isSelected
                        THEN TranslatedBy(BeforeGesture[i], annotations'[i], Displacement(p))
                        ELSE /\ annotations'[i] = annotations[i]
                             /\ SameButFlags(annotations[i], BeforeGesture[i])
       /\ UpDrag =>
            /\ Len(annotations') = Len(annotations)
            /\ \A i \in 1..Len(annotations) : SameButFlags(annotations'[i], annotations[i])]_vars

\* a drag is under way at a displacement of (-20, -20): the selected first
\* annotation, a stroke or a line, is displaced, the unselected second one is not
C38_Witness ==
    /\ Dragging /\ pressed
    /\ dragState.offset = [x |-> I(-20), y |-> I(-20)]
    /\ Len(annotations) = 2
    /\ annotations[1].isSelected /\ UsesPoints(annotations[1])
    /\ annotations[1].points # BeforeGesture[1].points
    /\ ~annotations[2].isSelected
SelectedIndices == {i \in 1..Len(annotations) : annotations[i].isSelected}

\* point k (0-based) of the points lies within the control-point threshold of s
WasGrabbed(points, k, s) ==
    SqrtLe(Dist2(s.x, s.y, points[2 * k + 1], points[2 * k + 2]), I(controlPointThreshold))

\* the points are the points of before with point k alone moved by d
OnlyPointMoved(before, after, k, d) ==
    /\ Len(after) = Len(before)
    /\ \A m \in 1..Len(before) :
            after[m] = IF m = 2 * k + 1 THEN Add(before[m], d.x)
                       ELSE IF m = 2 * k + 2 THEN Add(before[m], d.y)
                       ELSE before[m]

\* C39: every pointer-move of a control-point drag leaves the single selected
\* line with the points of before the gesture, the grabbed point alone moved
\* by the displacement of the pointer since pointer-down; the rest of the
\* line and every other annotation are unchanged; the pointer-up clears
\* editingAnnotationId and editingControlPointIndex.
C39_ControlPointDrag ==
    [][/\ \A p \in Pts :
            MoveControlPoint(p) =>
                /\ Cardinality(SelectedIndices) = 1
                /\ Len(BeforeGesture) = Len(annotations)
                /\ Len(annotations') = Len(annotations)
                /\ \A i \in 1..Len(annotations) :
                        IF i \in SelectedIndices
                        THEN /\ annotations[i].type = "shape"
                             /\ annotations[i].shapeType \in LineShapeTypes
                             /\ [annotations'[i] EXCEPT !.points = <<>>]
                                    = [annotations[i] EXCEPT !.points = <<>>]
                             /\ \E k \in 0..(Len(BeforeGesture[i].points) \div 2 - 1) :
                                    /\ WasGrabbed(BeforeGesture[i].points, k, dragState.startPoint[1])
                                    /\ OnlyPointMoved(BeforeGesture[i].points,
                                                      annotations'[i].points, k, Displacement(p))
                        ELSE annotations'[i] = annotations[i]
       /\ (editingAnnotationId # <<>> /\ UpDrag) =>
            /\ editingAnnotationId' = <<>>
            /\ editingControlPointIndex' = -1
            /\ \A i \in 1..Len(annotations) : SameButFlags(annotations'[i], annotations[i])]_vars
\* C40: while the active tool is not the select tool no annotation of the
\* working collection has isSelected or isEditing set, whatever was done
\* under that tool (draw, undo, redo).
C40_NoSelectionOffSelect ==
    tool # "select" =>
        \A i \in 1..Len(annotations) :
            ~annotations[i].isSelected /\ ~annotations[i].isEditing

=============================================================================
